---------------------------- MODULE Spec2Model ----------------------------
(***************************************************************************)
(* Safety-assistant: the retrieval-aware synthesis pipeline.               *)
(*                                                                         *)
(*   Spec      one synthesis_agent request (synthesis_agent.py), from the  *)
(*             module-level client initialisation to the returned bundle.  *)
(*   SpecLoops the provider loops of synthesis_agent, primary and          *)
(*             secondary, run side by side on one outcome sequence.        *)
(*   SpecCite  extract_cited_sources (source_extractor.py) applied to an   *)
(*             answer and a source list.                                   *)
(*   SpecConflicts  StandardComparator.detect_conflicts applied to a list  *)
(*             of standard records.                                        *)
(*   SpecDocs  DocumentProcessor.process_directory over a directory of     *)
(*             PDF files (document_processor.py).                          *)
(*   SpecDomain  DomainClassifier.get_primary_domain applied to a question *)
(*             (domain_classifier.py).                                     *)
(*   SpecChunk DocumentProcessor.chunk_text applied to one page.           *)
(*   SpecProse chunk_text with the configured sizes applied to a page of   *)
(*             prose.                                                      *)
(*   SpecPaths DocumentProcessor.process_document over file paths.         *)
(*   SpecHistory  the conversation history in the synthesis prompt.        *)
(*   SpecTables  TableExtractor.extract_table_data applied to a text, and  *)
(*             the table loop of synthesis_agent over chunks of chunk_text.*)
(*   SpecLive  Spec with the assumption that every model call returns.     *)
(*                                                                         *)
(* Text is modelled at word granularity.  A word is a record               *)
(*   n  number of characters            a  number of alphanumeric ones     *)
(*   l  number of letters               t  TRUE iff it ends in . ! or ?    *)
(*   q  number of characters outside the allowed symbol set of the         *)
(*      clean-up regex, parts: the words left when those are blanked       *)
(* and a text is a sequence of words separated by single blanks.           *)
(* Similarity scores are integers in hundredths (0.6 is 60).               *)
(***************************************************************************)
EXTENDS Integers, Sequences, FiniteSets, TLC

VARIABLES
    env,               \* config.py values read at import time
    claude_client,     \* synthesis_agent.py module global (TRUE = a client object)
    openai_client,     \* synthesis_agent.py module global
    question,          \* argument of synthesis_agent
    retrieved_chunks,  \* argument of synthesis_agent
    pc,                \* position in synthesis_agent
    model_idx,         \* index of the model the current for-loop is at
    calls,             \* history: provider calls made by this request, in order
    synthesis_result,  \* local of synthesis_agent
    used_fallback,     \* history: the "Fallback if no LLM" block was entered
    post_input,        \* history: synthesis_result on entry to the clean-up
    result,            \* the returned bundle
    lp,                \* SpecLoops: the two provider loops side by side
    cs,                \* SpecCite: one extract_cited_sources call
    dc,                \* SpecConflicts: one detect_conflicts call
    dp,                \* SpecDocs: one process_directory run
    dq,                \* SpecDomain: one get_primary_domain call
    ck,                \* SpecChunk, SpecProse: one chunk_text call
    hs,                \* SpecHistory: the history part of one prompt
    tb                 \* SpecTables: one extract_table_data call

vars == << env, claude_client, openai_client, question, retrieved_chunks, pc,
           model_idx, calls, synthesis_result, used_fallback, post_input,
           result, lp, cs, dc, dp, dq, ck, hs, tb >>

synthVars == << env, claude_client, openai_client, question, retrieved_chunks,
                pc, model_idx, calls, synthesis_result, used_fallback,
                post_input, result >>

-----------------------------------------------------------------------------
(* Bounds of the model                                                     *)

MaxTextWords == 3
MaxRetrieved == 2

-----------------------------------------------------------------------------
(* Words and texts                                                         *)

Word(n, a, l, t) == [n |-> n, a |-> a, l |-> l, t |-> t, q |-> 0, parts |-> << >>]

\* "safety": an ordinary word
WPlain == Word(6, 6, 6, FALSE)
\* "abc.": a short word closing a sentence
WStop == Word(4, 3, 3, TRUE)
\* "x": a single letter, the residue of column-wise PDF extraction
WLetter == Word(1, 1, 1, FALSE)

Vocabulary == { WPlain, WStop, WLetter }

RECURSIVE SeqsUpTo(_, _)
SeqsUpTo(S, k) ==
    IF k = 0 THEN { << >> }
    ELSE LET shorter == SeqsUpTo(S, k - 1)
         IN  shorter \cup { Append(s, x) : s \in shorter, x \in S }

\* What a model call can return after .strip(): one to MaxTextWords words.
Texts == SeqsUpTo(Vocabulary, MaxTextWords) \ { << >> }

\* Sums and concatenations over a sequence, halving it: a page can hold
\* hundreds of words.
RECURSIVE SumN(_)
SumN(ws) ==
    IF Len(ws) = 0 THEN 0
    ELSE IF Len(ws) = 1 THEN ws[1].n
    ELSE LET h == Len(ws) \div 2
         IN  SumN(SubSeq(ws, 1, h)) + SumN(SubSeq(ws, h + 1, Len(ws)))

RECURSIVE SumA(_)
SumA(ws) ==
    IF Len(ws) = 0 THEN 0
    ELSE IF Len(ws) = 1 THEN ws[1].a
    ELSE LET h == Len(ws) \div 2
         IN  SumA(SubSeq(ws, 1, h)) + SumA(SubSeq(ws, h + 1, Len(ws)))

Blanks(ws) == IF ws = << >> THEN 0 ELSE Len(ws) - 1

\* len(' '.join(ws))
CharLen(ws) == SumN(ws) + Blanks(ws)

RECURSIVE Flatten(_)
Flatten(ss) ==
    IF Len(ss) = 0 THEN << >>
    ELSE IF Len(ss) = 1 THEN ss[1]
    ELSE LET h == Len(ss) \div 2
         IN  Flatten(SubSeq(ss, 1, h)) \o Flatten(SubSeq(ss, h + 1, Len(ss)))

Take(s, k) == SubSeq(s, 1, IF Len(s) < k THEN Len(s) ELSE k)

\* A word of letters only; a word of letters with one trailing , or : ; a
\* word of letters closing a sentence.
Letters(n) == Word(n, n, n, FALSE)
Punct(n) == Word(n, n - 1, n - 1, FALSE)
Stop(n) == Word(n, n - 1, n - 1, TRUE)
\* "Here's": the apostrophe is outside the allowed symbol set
HereS == [n |-> 6, a |-> 5, l |-> 5, t |-> FALSE, q |-> 1,
          parts |-> << Letters(4), Letters(1) >>]
\* ";-ab:": more symbols than letters, all of them allowed symbols
WSymbols == Word(5, 2, 2, FALSE)

\* len(w) == 1 and w.isalpha()
IsSingleLetter(w) == w.n = 1 /\ w.l = 1

\* The word without its closing . ! or ?, which re.split consumes.
Unterminated(w) == [w EXCEPT !.n = w.n - 1, !.t = FALSE]
\* The word with the '.' that '. '.join(...) + '.' puts after it.
Terminated(w) == [w EXCEPT !.n = w.n + 1, !.t = TRUE]

\* re.sub(r'[^\w\s\-.,;:()...]', ' ', text), then whitespace collapsed.
RECURSIVE ReplaceDisallowed(_)
ReplaceDisallowed(ws) ==
    IF ws = << >> THEN << >>
    ELSE (IF Head(ws).q = 0 THEN << Head(ws) >> ELSE Head(ws).parts)
         \o ReplaceDisallowed(Tail(ws))

\* re.split(r'[.!?]\s+', text): a closing mark followed by whitespace ends a
\* sentence and is consumed; the last word keeps its mark.
RECURSIVE SplitSentencesFrom(_, _, _)
SplitSentencesFrom(ws, cur, acc) ==
    IF ws = << >> THEN (IF cur = << >> THEN acc ELSE Append(acc, cur))
    ELSE IF Head(ws).t /\ Tail(ws) # << >>
         THEN SplitSentencesFrom(Tail(ws), << >>,
                                 Append(acc, Append(cur, Unterminated(Head(ws)))))
         ELSE SplitSentencesFrom(Tail(ws), Append(cur, Head(ws)), acc)

SplitSentences(ws) == SplitSentencesFrom(ws, << >>, << >>)

CountSingleLetters(ws) == Len(SelectSeq(ws, IsSingleLetter))

\* sum(1 for c in s if c.isalnum() or c.isspace()) / len(s) >= pct / 100
ReadableRatioAtLeast(ws, pct) ==
    100 * (SumA(ws) + Blanks(ws)) >= pct * CharLen(ws)

\* sum(1 for c in phrase if c.isalnum()) / len(phrase) >= pct / 100
AlnumRatioAtLeast(ws, pct) == 100 * SumA(ws) >= pct * CharLen(ws)

-----------------------------------------------------------------------------
(* Fixed strings of synthesis_agent                                        *)

\* "I found relevant information in the available documents. Here's what I
\* can tell you:"
FallbackIntro ==
    << Letters(1), Letters(5), Letters(8), Letters(11), Letters(2), Letters(3),
       Letters(9), Stop(10), HereS, Letters(4), Letters(1), Letters(3),
       Letters(4), Punct(4) >>

\* "Note: This is extracted directly from the documents. For a more complete
\* answer, please ensure the LLM service is available."
FallbackNote ==
    << Punct(5), Letters(4), Letters(2), Letters(9), Letters(8), Letters(4),
       Letters(3), Stop(10), Letters(3), Letters(1), Letters(4), Letters(8),
       Punct(7), Letters(6), Letters(6), Letters(3), Letters(3), Letters(7),
       Letters(2), Stop(10) >>

\* "I found information in the documents, but it appears to be unclear or
\* garbled. Please try rephrasing ... about this topic."
FallbackUnclear ==
    << Letters(1), Letters(5), Letters(11), Letters(2), Letters(3), Punct(10),
       Letters(3), Letters(2), Letters(7), Letters(2), Letters(2), Letters(7),
       Letters(2), Stop(8), Letters(6), Letters(3), Letters(10), Letters(4),
       Letters(8), Letters(2), Letters(5), Letters(2), Letters(3), Letters(9),
       Letters(7), Letters(5), Letters(11), Letters(5), Letters(4), Stop(6) >>

\* A synthesis text: a fixed message of the program (msg), or the words of
\* body.  NoText is the empty string.
NoText == [msg |-> "", body |-> << >>]
Body(ws) == [msg |-> "", body |-> ws]
\* "I couldn't find relevant information ... for your question: '<q>'. ..."
NoEvidenceText(q) == [msg |-> "no_evidence", body |-> << >>, question |-> q]
\* "I found some information in the documents, but it appears to be unclear
\* or garbled. ..."
GarbledText == [msg |-> "garbled", body |-> << >>]

\* not synthesis_result
IsEmptyText(t) == t.msg = "" /\ t.body = << >>

-----------------------------------------------------------------------------
(* Thresholds of synthesis_agent, in percent or characters                 *)

LineReadablePct == 70
MeaningfulMinChars == 15
MeaningfulSinglePct == 20
MeaningfulReadablePct == 60
MeaningfulMax == 5
SymbolWordPct == 50
CleanMinChars == 10
CleanSinglePct == 30
CleanReadablePct == 60
PhraseWords == 3
PhraseAlnumPct == 60
PhraseMax == 3

-----------------------------------------------------------------------------
(* The extractive fallback: synthesis_agent, "Fallback if no LLM"          *)

\* Lines 388-405.  Texts of the model hold no merged words, no repeated
\* letters or symbols and, once whitespace is collapsed, no line break: the
\* text is one line, kept iff it is readable enough.
CleanChunkText(ws) ==
    LET line == ReplaceDisallowed(ws)
    IN  IF line # << >> /\ ReadableRatioAtLeast(line, LineReadablePct)
        THEN line ELSE << >>

\* Lines 410-420.
IsMeaningfulSentence(s) ==
    /\ CharLen(s) >= MeaningfulMinChars
    /\ Len(s) > 0
    /\ 100 * CountSingleLetters(s) <= MeaningfulSinglePct * Len(s)
    /\ ReadableRatioAtLeast(s, MeaningfulReadablePct)

MeaningfulSentences(ws) ==
    SelectSeq(SplitSentences(CleanChunkText(ws)), IsMeaningfulSentence)

BestChunkLast(retrieved) == retrieved[Len(retrieved)]

\* The chunk the fallback is built from: retrieved_chunks[0].
BestChunk(retrieved) == retrieved[1]

\* Lines 379-429: the intro, up to five sentences of the best chunk joined
\* by blanks (or the "unclear" message), the note.
ExtractiveFallback(retrieved) ==
    LET body == IF retrieved = << >> THEN << >>
                ELSE LET ms == MeaningfulSentences(BestChunk(retrieved).text)
                     IN  IF ms # << >> THEN Flatten(Take(ms, MeaningfulMax))
                         ELSE FallbackUnclear
    IN  FallbackIntro \o body \o FallbackNote

-----------------------------------------------------------------------------
(* The clean-up of the synthesis text: synthesis_agent lines 431-501       *)

\* Lines 454-464: single letters and words that are mostly symbols go.
KeepWord(w) ==
    /\ ~IsSingleLetter(w)
    /\ ~(100 * (w.n - w.a) > SymbolWordPct * w.n)

\* Lines 435-468.  Texts of the model hold none of the citation patterns.
CleanWords(ws) == ReplaceDisallowed(SelectSeq(ws, KeepWord))

\* Lines 473-482.
IsCleanSentence(s) ==
    /\ CharLen(s) >= CleanMinChars
    /\ ~(Len(s) > 0 /\ 100 * CountSingleLetters(s) > CleanSinglePct * Len(s))
    /\ ReadableRatioAtLeast(s, CleanReadablePct)

CleanSentences(ws) == SelectSeq(SplitSentences(CleanWords(ws)), IsCleanSentence)

\* '. '.join(parts) + '.'
RECURSIVE JoinWithPeriods(_)
JoinWithPeriods(parts) ==
    IF parts = << >> THEN << >>
    ELSE LET p == Head(parts)
         IN  SubSeq(p, 1, Len(p) - 1) \o << Terminated(p[Len(p)]) >>
             \o JoinWithPeriods(Tail(parts))

\* Lines 488-493: every window of three words that is alphanumeric enough.
RECURSIVE PhrasesFrom(_, _)
PhrasesFrom(ws, i) ==
    IF i > Len(ws) - (PhraseWords - 1) THEN << >>
    ELSE LET phrase == SubSeq(ws, i, i + PhraseWords - 1)
         IN  (IF AlnumRatioAtLeast(phrase, PhraseAlnumPct)
              THEN << phrase >> ELSE << >>) \o PhrasesFrom(ws, i + 1)

Phrases(ws) == PhrasesFrom(CleanWords(ws), 1)

\* Lines 484-497: which of the three endings the clean-up takes.
PostBranch(ws) ==
    IF CleanSentences(ws) # << >> THEN "sentences"
    ELSE IF Phrases(ws) # << >> THEN "phrases"
    ELSE "garbled"

\* Mutant: the final else (the fixed "unclear or garbled" sentence) is
\* missing, so what is left of the text is returned.
PostProcessNoRefusal(ws) ==
    IF CleanSentences(ws) # << >>
    THEN Body(JoinWithPeriods(CleanSentences(ws)))
    ELSE IF Phrases(ws) # << >>
    THEN Body(JoinWithPeriods(Take(Phrases(ws), PhraseMax)))
    ELSE Body(SelectSeq(CleanWords(ws), IsSingleLetter))

\* Lines 431-501, on the words of synthesis_result.
PostProcess(ws) ==
    IF CleanSentences(ws) # << >>
    THEN Body(JoinWithPeriods(CleanSentences(ws)))
    ELSE IF Phrases(ws) # << >>
    THEN Body(JoinWithPeriods(Take(Phrases(ws), PhraseMax)))
    ELSE GarbledText

-----------------------------------------------------------------------------
(* Configuration and module initialisation                                 *)

\* config.py: LLM_PROVIDER, and whether each API key is a non-empty string.
\* sdk_ok: the provider SDK imports and its client constructor succeeds.
Providers == { "anthropic", "openai", "local" }

Envs == [ LLM_PROVIDER : Providers, ANTHROPIC_API_KEY : BOOLEAN,
          OPENAI_API_KEY : BOOLEAN, sdk_ok : BOOLEAN ]

REFUSE_KEYWORDS ==
    { "legal interpretation", "legal advice", "approve", "approval", "certify",
      "certification", "guarantee", "warranty", "liability" }

\* synthesis_agent.py lines 10-22
InitClaudeClient(e) ==
    e.LLM_PROVIDER = "anthropic" /\ e.ANTHROPIC_API_KEY /\ e.sdk_ok

InitOpenAIClientAnyProvider(e) == e.OPENAI_API_KEY /\ e.sdk_ok

\* synthesis_agent.py lines 11, 24-29
InitOpenAIClient(e) ==
    e.LLM_PROVIDER = "openai" /\ e.OPENAI_API_KEY /\ e.sdk_ok

claude_models ==
    << "claude-3-5-sonnet-20241022", "claude-3-5-sonnet-20240620",
       "claude-3-opus-20240229", "claude-3-sonnet-20240229" >>

openai_models == << "gpt-4-turbo-preview", "gpt-4-1106-preview", "gpt-4" >>

-----------------------------------------------------------------------------
(* Inputs of a request                                                     *)

\* A question is the set of phrases that occur in it.
Questions == { { "hic", "threshold" }, { "certify", "r155" } }

\* some keyword of REFUSE_KEYWORDS occurs in the question
AsksForCompliance(q) == \E k \in REFUSE_KEYWORDS : k \in q

\* A domain or method name is the sequence of its pieces: "_" and the
\* underscore-free runs between them.  None is no name at all.
None == << "<None>" >>

\* f"{x}" of a name
FormatName(x) == IF x = None THEN << "None" >> ELSE x

\* origin and strictness of a chunk without one
NoOrigin == "<None>"

\* Retrieved chunks (DocumentChunk with its similarity).
ChunkReadable ==
    [ id |-> 1, similarity |-> 80, document_name |-> "R155",
      page_number |-> 3, section_number |-> "5.2",
      text |-> << WPlain, WPlain, WStop, WPlain, WPlain, WPlain >>,
      origin |-> "UNECE", method |-> << "UNECE R155" >>, domain |-> << "Cybersecurity" >>,
      strictness |-> "Regulatory", year |-> 2021 ]

ChunkGarbled ==
    [ id |-> 2, similarity |-> 50, document_name |-> "guide",
      page_number |-> 1, section_number |-> "",
      text |-> << WSymbols, WLetter, WSymbols >>,
      origin |-> "Industry", method |-> << "UNECE R155" >>, domain |-> << "Cybersecurity" >>,
      strictness |-> "Standard", year |-> 0 ]

ChunkShort ==
    [ id |-> 3, similarity |-> 30, document_name |-> "ISO 26262 part 3",
      page_number |-> 7, section_number |-> "",
      text |-> << WPlain >>,
      origin |-> "Industry", method |-> None,
      domain |-> << "Functional Safety" >>, strictness |-> "Standard", year |-> 2018 ]

Corpus == { ChunkReadable, ChunkGarbled, ChunkShort }

\* The order the retrieval collaborator promises: most-similar first.
IsRanked(r) ==
    \A i \in 1..(Len(r) - 1) : r[i].similarity >= r[i + 1].similarity

\* retrieved_chunks: List[Tuple], each chunk of the index at most once;
\* synthesis_agent takes the list in whatever order it is passed.
RetrievedLists ==
    { r \in SeqsUpTo(Corpus, MaxRetrieved) :
        \A i, j \in 1..Len(r) : r[i].id = r[j].id => i = j }

-----------------------------------------------------------------------------
(* Table, standard and conflict summaries of the bundle                    *)

\* StandardComparator.extract_standard_info
RECURSIVE extract_standard_info(_)
extract_standard_info(chunks) ==
    IF chunks = << >> THEN << >>
    ELSE LET c == Head(chunks)
         IN  << [ document |-> c.document_name, origin |-> c.origin,
                  method |-> c.method, domain |-> c.domain,
                  strictness |-> c.strictness, year |-> c.year,
                  text |-> c.text, page |-> c.page_number,
                  section |-> c.section_number, similarity |-> c.similarity ] >>
             \o extract_standard_info(Tail(chunks))

\* key = f"{std.get('domain', 'Unknown')}_{std.get('method', 'Unknown')}";
\* every record has both fields, so the defaults never apply.
StandardKey(std) == FormatName(std.domain) \o << "_" >> \o FormatName(std.method)

\* the keys of grouped, in insertion order
RECURSIVE GroupKeys(_, _)
GroupKeys(stds, seen) ==
    IF stds = << >> THEN << >>
    ELSE LET k == StandardKey(Head(stds))
         IN  IF k \in seen THEN GroupKeys(Tail(stds), seen)
             ELSE << k >> \o GroupKeys(Tail(stds), seen \cup { k })

origins(group) == { group[i].origin : i \in 1..Len(group) }

strictness_levels(group) == { group[i].strictness : i \in 1..Len(group) }

IsConflictBothDiffer(group) ==
    /\ Len(group) > 1
    /\ Cardinality(origins(group)) > 1
    /\ Cardinality(strictness_levels(group)) > 1

\* Lines 138-143
IsConflict(group) ==
    /\ Len(group) > 1
    /\ (Cardinality(origins(group)) > 1 \/ Cardinality(strictness_levels(group)) > 1)

RECURSIVE ConflictsOf(_, _)
ConflictsOf(keys, stds) ==
    IF keys = << >> THEN << >>
    ELSE LET key == Head(keys)
             InGroup(std) == StandardKey(std) = key
             group == SelectSeq(stds, InGroup)
         IN  (IF IsConflict(group)
              THEN << [ standard |-> key, sources |-> group,
                        conflict_type |-> "multiple_interpretations" ] >>
              ELSE << >>)
             \o ConflictsOf(Tail(keys), stds)

\* StandardComparator.detect_conflicts
detect_conflicts(stds) == ConflictsOf(GroupKeys(stds, { }), stds)

\* Lines 173-185.  A chunk text of the model is one line of words separated
\* by single blanks: extract_table_data finds no table in it (TablesOf and
\* SpecTables have the loop over texts of characters).
ExtractTables(chunks) == << >>

-----------------------------------------------------------------------------
(* The provider calls                                                      *)

\* What str(e) of a failed call holds: "404" (or not_found), "401" (or
\* authentication, api_key), "429" (or rate_limit); none of them is any
\* other error.
ErrorMarks == { { "404" }, { "401" }, { "429" }, { }, { "404", "401" } }

\* The outcome of one call: a text that is non-empty after strip(), a text
\* that is empty after strip(), a response without content (Anthropic: an
\* empty content list; OpenAI: message.content is None), or an exception.
Outcomes ==
    [ kind : { "text" }, text : Texts ]
    \cup { [ kind |-> "empty" ], [ kind |-> "no_content" ] }
    \cup [ kind : { "error" }, marks : ErrorMarks ]

\* Lines 337-348: the class the primary loop gives an exception.
ErrorClass(marks) ==
    IF "404" \in marks THEN "not_found"
    ELSE IF "401" \in marks THEN "auth"
    ELSE IF "429" \in marks THEN "rate_limit"
    ELSE "other"

\* Mutant: the break after a non-empty text is missing.
PrimaryDecisionNoBreak(o) ==
    IF o.kind \in { "text", "empty", "no_content" } THEN "next"
    ELSE IF ErrorClass(o.marks) \in { "auth", "rate_limit" } THEN "abort"
    ELSE "next"

\* Mutant: an authentication or rate-limit error continues like any other.
PrimaryDecisionAuthContinues(o) ==
    IF o.kind = "text" THEN "accept" ELSE "next"

\* Mutant: an error that is none of the three known classes gives up.
PrimaryDecisionOtherAborts(o) ==
    IF o.kind = "text" THEN "accept"
    ELSE IF o.kind \in { "empty", "no_content" } THEN "next"
    ELSE IF ErrorClass(o.marks) = "not_found" THEN "next"
    ELSE "abort"

\* Lines 313-348: "accept" (break with the text), "next" (continue),
\* "abort" (break with nothing).
PrimaryDecision(o) ==
    IF o.kind = "text" THEN "accept"
    ELSE IF o.kind \in { "empty", "no_content" } THEN "next"
    ELSE IF ErrorClass(o.marks) = "not_found" THEN "next"
    ELSE IF ErrorClass(o.marks) \in { "auth", "rate_limit" } THEN "abort"
    ELSE "next"

\* Lines 356-373: any text, empty or not, is assigned and breaks; content
\* None raises inside the try (AttributeError: no 404 in it) and breaks;
\* only a not-found exception continues.
SecondaryDecision(o) ==
    IF o.kind \in { "text", "empty" } THEN "accept"
    ELSE IF o.kind = "no_content" THEN "abort"
    ELSE IF "404" \in o.marks THEN "next"
    ELSE "abort"

\* What the history keeps of an outcome: its kind, an exception's class.
OutcomeClass(o) == IF o.kind = "error" THEN ErrorClass(o.marks) ELSE o.kind

\* The stripped text a call returned, empty if it returned none.
ReturnedText(o) == IF o.kind = "text" THEN o.text ELSE << >>

\* synthesis_result after the attempt (lines 324 and 364).
TextAfter(o, before) ==
    IF o.kind = "text" THEN Body(o.text)
    ELSE IF o.kind = "empty" THEN NoText
    ELSE before

-----------------------------------------------------------------------------
(* synthesis_agent                                                         *)

\* Mutant: the guard tests for a missing argument only (retrieved is None).
NoEvidenceOnlyNone(retrieved) == FALSE

\* Lines 161-168
NoEvidence(retrieved) == retrieved = << >>

NoEvidenceBundle(q) ==
    [ synthesis |-> NoEvidenceText(q), tables |-> << >>, comparisons |-> << >>,
      conflicts |-> << >>, num_sources |-> 0 ]

\* Line 376
NeedsFallback(sr) == IsEmptyText(sr)

\* Lines 375-509: from the end of the provider loops to the return.
FinalText(sr, retrieved) ==
    IF NeedsFallback(sr) THEN ExtractiveFallback(retrieved) ELSE sr.body

Bundle(sr, retrieved) ==
    [ synthesis |-> PostProcess(FinalText(sr, retrieved)),
      tables |-> ExtractTables(retrieved),
      comparisons |-> extract_standard_info(retrieved),
      conflicts |-> detect_conflicts(extract_standard_info(retrieved)),
      num_sources |-> Len(retrieved) ]

\* Line 354
TriesSecondary(sr) == IsEmptyText(sr) /\ openai_client

Finish(sr) ==
    /\ used_fallback' = NeedsFallback(sr)
    /\ post_input' = FinalText(sr, retrieved_chunks)
    /\ result' = Bundle(sr, retrieved_chunks)
    /\ synthesis_result' = sr
    /\ pc' = "done"
    /\ model_idx' = 0

\* The primary loop is over with sr in synthesis_result: lines 353-355.
AfterPrimary(sr) ==
    IF TriesSecondary(sr)
    THEN /\ pc' = "openai"
         /\ model_idx' = 1
         /\ synthesis_result' = sr
         /\ UNCHANGED << used_fallback, post_input, result >>
    ELSE Finish(sr)

Idle == [ pc |-> "off" ]

NoResult == [ synthesis |-> NoText, tables |-> << >>, comparisons |-> << >>,
              conflicts |-> << >>, num_sources |-> 0 ]

InitSynth ==
    /\ env \in Envs
    /\ claude_client = InitClaudeClient(env)
    /\ openai_client = InitOpenAIClient(env)
    /\ question \in Questions
    /\ retrieved_chunks \in RetrievedLists
    /\ pc = "start"
    /\ model_idx = 0
    /\ calls = << >>
    /\ synthesis_result = NoText
    /\ used_fallback = FALSE
    /\ post_input = << >>
    /\ result = NoResult

\* synthesis_agent is called: lines 161-312, up to the first provider call.
Start ==
    /\ pc = "start"
    /\ UNCHANGED << env, claude_client, openai_client, question,
                    retrieved_chunks, calls, lp, cs, dc, dp, dq, ck, hs, tb >>
    /\ IF NoEvidence(retrieved_chunks)
       THEN /\ result' = NoEvidenceBundle(question)
            /\ pc' = "done"
            /\ UNCHANGED << model_idx, synthesis_result, used_fallback, post_input >>
       ELSE IF claude_client
       THEN /\ pc' = "claude"
            /\ model_idx' = 1
            /\ UNCHANGED << synthesis_result, used_fallback, post_input, result >>
       ELSE AfterPrimary(NoText)

\* Mutant: the attempt is repeated on the same model.
NextModelRetries(idx) == idx

\* for model_name in ...: the loop moves to the next model of the list
NextModel(idx) == idx + 1

\* One pass of the loop over claude_models: lines 313-348.
ClaudeCall ==
    /\ pc = "claude"
    /\ \E o \in Outcomes :
        LET sr == TextAfter(o, synthesis_result)
            d == PrimaryDecision(o)
        IN  /\ calls' = Append(calls, [ provider |-> "anthropic",
                                        model |-> model_idx,
                                        outcome |-> OutcomeClass(o),
                                        text |-> ReturnedText(o) ])
            /\ IF d = "next" /\ model_idx < Len(claude_models)
               THEN /\ model_idx' = NextModel(model_idx)
                    /\ synthesis_result' = sr
                    /\ UNCHANGED << pc, used_fallback, post_input, result >>
               ELSE AfterPrimary(sr)
    /\ UNCHANGED << env, claude_client, openai_client, question,
                    retrieved_chunks, lp, cs, dc, dp, dq, ck, hs, tb >>

\* One pass of the loop over openai_models: lines 356-373.
OpenAICall ==
    /\ pc = "openai"
    /\ \E o \in Outcomes :
        LET sr == TextAfter(o, synthesis_result)
            d == SecondaryDecision(o)
        IN  /\ calls' = Append(calls, [ provider |-> "openai",
                                        model |-> model_idx,
                                        outcome |-> OutcomeClass(o),
                                        text |-> ReturnedText(o) ])
            /\ IF d = "next" /\ model_idx < Len(openai_models)
               THEN /\ model_idx' = NextModel(model_idx)
                    /\ synthesis_result' = sr
                    /\ UNCHANGED << pc, used_fallback, post_input, result >>
               ELSE Finish(sr)
    /\ UNCHANGED << env, claude_client, openai_client, question,
                    retrieved_chunks, lp, cs, dc, dp, dq, ck, hs, tb >>

-----------------------------------------------------------------------------
(* Properties of a synthesis_agent request (Spec)                          *)

Done == pc = "done"

CallsTo(p) == { k \in 1..Len(calls) : calls[k].provider = p }

\* The returned synthesis text is one of the program's fixed refusals.
IsRefusal(r) == r.synthesis.msg \in { "no_evidence", "garbled" }

\* C1: with an empty retrieved list the request returns the no-evidence
\* refusal, zero sources, empty tables, comparisons and conflicts, and no
\* provider was called.
C1_EmptyRetrievalRefusesWithoutCalls ==
    (Done /\ retrieved_chunks = << >>) =>
        /\ result.synthesis = NoEvidenceText(question)
        /\ result.num_sources = 0
        /\ result.tables = << >>
        /\ result.comparisons = << >>
        /\ result.conflicts = << >>
        /\ calls = << >>

C1_Witness ==
    Done /\ retrieved_chunks = << >> /\ claude_client

\* C2: a question holding one of REFUSE_KEYWORDS, with a non-empty retrieved
\* list, is answered by a refusal, never by model or extracted text.
C2_ComplianceQuestionIsRefused ==
    (Done /\ AsksForCompliance(question) /\ retrieved_chunks # << >>) =>
        IsRefusal(result)

\* C3: with a non-empty retrieved list, whatever the provider calls do, the
\* request is at a provider call or has returned (no third way out), and
\* the returned synthesis text is non-empty.
C3_ReturnsNonEmptyText ==
    /\ pc \in { "start", "claude", "openai", "done" }
    /\ (pc = "claude" => model_idx \in 1..Len(claude_models))
    /\ (pc = "openai" => model_idx \in 1..Len(openai_models))
    /\ (Done /\ retrieved_chunks # << >>) =>
          /\ ~IsEmptyText(result.synthesis)
          /\ (result.synthesis.msg = "" => CharLen(result.synthesis.body) > 0)

C3_Witness ==
    /\ Done
    /\ Len(calls) = Len(claude_models)
    /\ calls[1].outcome = "other"
    /\ calls[2].outcome = "empty"
    /\ calls[3].outcome = "not_found"
    /\ calls[4].outcome = "rate_limit"
    /\ used_fallback
    /\ BestChunk(retrieved_chunks) = ChunkGarbled
    /\ ~IsEmptyText(result.synthesis)

\* C4: a call that returned non-empty text is the last call of the request,
\* the extractive fallback is not used, and the clean-up is handed that text.
C4_AcceptedTextStopsTheChain ==
    \A k \in 1..Len(calls) :
        calls[k].outcome = "text" =>
            /\ k = Len(calls)
            /\ Done
            /\ ~used_fallback
            /\ post_input = calls[k].text

C4_Witness ==
    /\ Done
    /\ Len(calls) = 2
    /\ calls[1].outcome = "empty"
    /\ calls[2].outcome = "text"
    /\ post_input = << WPlain, WStop, WPlain >>

\* C5: in the primary loop no model is attempted after an attempt that
\* failed with an authentication or rate-limit error.
C5_AuthOrRateLimitAbortsPrimary ==
    \A k \in CallsTo("anthropic") :
        calls[k].outcome \in { "auth", "rate_limit" } =>
            \A j \in CallsTo("anthropic") : j <= k

C5_Witness ==
    /\ Done
    /\ Len(calls) = 2
    /\ calls[1].outcome = "not_found"
    /\ calls[2].provider = "anthropic"
    /\ calls[2].outcome = "auth"

\* C7: when the primary provider was attempted and yielded nothing, the
\* secondary provider is attempted before the extractive fallback is used.
C7_SecondaryTriedBeforeFallback ==
    (Done /\ used_fallback /\ CallsTo("anthropic") # { }) =>
        CallsTo("openai") # { }

\* the model identifier a call went to
ModelOf(call) ==
    IF call.provider = "anthropic" THEN claude_models[call.model]
    ELSE openai_models[call.model]

\* C18: the primary loop attempts the models in list order, each at most
\* once: after an attempt on model i that ended with a not-found error, an
\* error that is neither authentication nor rate-limit, or empty output,
\* and i not the last, the next call is to model i+1.
C18_PrimaryModelsTriedInListOrder ==
    LET primary == CallsTo("anthropic")
    IN  /\ \A k \in primary :
              /\ k = calls[k].model
              /\ ModelOf(calls[k]) = claude_models[k]
        /\ \A k \in primary :
              ( /\ calls[k].outcome \in { "not_found", "other", "empty" }
                /\ calls[k].model < Len(claude_models) ) =>
                  IF k < Len(calls)
                  THEN /\ calls[k + 1].provider = "anthropic"
                       /\ ModelOf(calls[k + 1]) = claude_models[calls[k].model + 1]
                  ELSE pc = "claude" /\ model_idx = calls[k].model + 1

\* the three continuing outcomes in a row, each followed by the next model
C18_Witness ==
    /\ Len(calls) = 4
    /\ calls[1].outcome = "not_found"
    /\ calls[2].outcome = "other"
    /\ calls[3].outcome = "empty"
    /\ ModelOf(calls[4]) = "claude-3-sonnet-20240229"

\* the calls of a request are sequential and bounded
CallBounds ==
    /\ \A j, k \in 1..Len(calls) : ModelOf(calls[j]) = ModelOf(calls[k]) => j = k
    /\ Cardinality(CallsTo("anthropic")) <= 4
    /\ Cardinality(CallsTo("openai")) <= 3
    /\ pc \in { "start", "claude", "openai", "done" }
    /\ Done => result # NoResult

\* C20: a request makes at most one call per model identifier, at most 4
\* to the primary provider and 3 to the secondary, one after the other,
\* and then returns a result bundle.
C20_BoundedCallsThenBundle == []CallBounds /\ <>(Done /\ result # NoResult)

\* all four primary models were called before the bundle was returned
C20_Witness ==
    /\ Done
    /\ result # NoResult
    /\ Cardinality(CallsTo("anthropic")) = 4

\* the retrieved chunks no other retrieved chunk is more similar than
MostSimilar(retrieved) ==
    { k \in 1..Len(retrieved) :
        \A j \in 1..Len(retrieved) : retrieved[k].similarity >= retrieved[j].similarity }

C24_NoSurvivingSentenceGivesRefusal ==
    (Done /\ ~NoEvidence(retrieved_chunks) /\ CleanSentences(post_input) = << >>) =>
        result.synthesis = GarbledText

-----------------------------------------------------------------------------
(* The two provider loops side by side (SpecLoops)                         *)

\* One text stands for every non-empty model output.
LoopOutcomes ==
    { [ kind |-> "text", text |-> << WPlain, WPlain >> ],
      [ kind |-> "empty" ], [ kind |-> "no_content" ] }
    \cup [ kind : { "error" }, marks : ErrorMarks ]

\* The k-th attempt of either loop gets the k-th outcome.
OutcomeSequences ==
    { os \in SeqsUpTo(LoopOutcomes, Len(claude_models)) :
        Len(os) = Len(claude_models) }

LoopStart == [ at |-> 1, state |-> "running", decisions |-> << >> ]

\* One pass of a for-loop over models: the decision on the outcome, and
\* where the loop is afterwards.
LoopAfter(loop, d, models) ==
    [ at |-> loop.at + 1,
      state |-> IF d = "accept" THEN "accepted"
                ELSE IF d = "abort" THEN "aborted"
                ELSE IF loop.at < Len(models) THEN "running"
                ELSE "exhausted",
      decisions |-> Append(loop.decisions, d) ]

SynthOff ==
    /\ env = [ LLM_PROVIDER |-> "local", ANTHROPIC_API_KEY |-> FALSE,
               OPENAI_API_KEY |-> FALSE, sdk_ok |-> FALSE ]
    /\ claude_client = FALSE
    /\ openai_client = FALSE
    /\ question = { }
    /\ retrieved_chunks = << >>
    /\ pc = "off"
    /\ model_idx = 0
    /\ calls = << >>
    /\ synthesis_result = NoText
    /\ used_fallback = FALSE
    /\ post_input = << >>
    /\ result = NoResult

InitLoops ==
    /\ SynthOff
    /\ cs = Idle
    /\ dc = Idle
    /\ dp = Idle
    /\ dq = Idle
    /\ ck = Idle
    /\ hs = Idle
    /\ tb = Idle
    /\ \E os \in OutcomeSequences :
          lp = [ pc |-> "on", outcomes |-> os,
                 primary |-> LoopStart, secondary |-> LoopStart ]

\* Lines 313-348, one pass.
PrimaryLoopStep ==
    /\ lp.pc = "on"
    /\ lp.primary.state = "running"
    /\ lp' = [ lp EXCEPT !.primary =
                 LoopAfter(@, PrimaryDecision(lp.outcomes[@.at]), claude_models) ]
    /\ UNCHANGED << synthVars, cs, dc, dp, dq, ck, hs, tb >>

\* Lines 356-373, one pass.
SecondaryLoopStep ==
    /\ lp.pc = "on"
    /\ lp.secondary.state = "running"
    /\ lp' = [ lp EXCEPT !.secondary =
                 LoopAfter(@, SecondaryDecision(lp.outcomes[@.at]), openai_models) ]
    /\ UNCHANGED << synthVars, cs, dc, dp, dq, ck, hs, tb >>

NextLoops == PrimaryLoopStep \/ SecondaryLoopStep

SpecLoops == InitLoops /\ [][NextLoops]_vars

Min(a, b) == IF a < b THEN a ELSE b

\* C6: on the same outcome sequence the secondary loop takes the decision
\* the primary loop takes at every attempt both make, and once both are
\* over they have attempted the same number of models.
C6_SecondaryLoopMirrorsPrimary ==
    lp.pc = "on" =>
        /\ \A k \in 1..Min(Len(lp.primary.decisions), Len(lp.secondary.decisions)) :
              lp.secondary.decisions[k] = lp.primary.decisions[k]
        /\ (lp.primary.state # "running" /\ lp.secondary.state # "running") =>
              Len(lp.primary.decisions) = Len(lp.secondary.decisions)

-----------------------------------------------------------------------------
(* source_extractor.extract_cited_sources                                  *)
(* Strings are sequences of one-character strings, so that lower(),        *)
(* replace(), split(), the substring test and re.search are computed.      *)

MaxAnswerPhrases == 2
MaxSources == 3

UpperCase == <<"A", "B", "C", "D", "E", "F", "G", "H", "I", "J", "K", "L", "M", "N", "O", "P", "Q", "R", "S", "T", "U", "V", "W", "X", "Y", "Z">>
LowerCase == <<"a", "b", "c", "d", "e", "f", "g", "h", "i", "j", "k", "l", "m", "n", "o", "p", "q", "r", "s", "t", "u", "v", "w", "x", "y", "z">>
DigitChars == <<"0", "1", "2", "3", "4", "5", "6", "7", "8", "9">>

IsIn(c, s) == \E i \in 1..Len(s) : s[i] = c

\* str.lower() on one character
LowerChar(c) ==
    IF IsIn(c, UpperCase)
    THEN LowerCase[CHOOSE i \in 1..Len(UpperCase) : UpperCase[i] = c]
    ELSE c

lower(s) == [i \in 1..Len(s) |-> LowerChar(s[i])]

IsSpace(c) == c = " "

\* \w of the re module
IsWordChar(c) == IsIn(c, UpperCase) \/ IsIn(c, LowerCase) \/ IsIn(c, DigitChars) \/ c = "_"

StartsWithAt(text, i, lit) ==
    /\ i + Len(lit) - 1 <= Len(text)
    /\ \A k \in 1..Len(lit) : text[i + k - 1] = lit[k]

\* needle in hay
Contains(hay, needle) == \E i \in 1..(Len(hay) + 1) : StartsWithAt(hay, i, needle)

\* s.replace(old, ""), old non-empty
RECURSIVE RemoveFrom(_, _, _)
RemoveFrom(s, i, old) ==
    IF i > Len(s) THEN << >>
    ELSE IF StartsWithAt(s, i, old) THEN RemoveFrom(s, i + Len(old), old)
    ELSE <<s[i]>> \o RemoveFrom(s, i + 1, old)

replace(s, old) == RemoveFrom(s, 1, old)

\* s.split(): the maximal runs of non-blank characters
RECURSIVE SplitFrom(_, _, _)
SplitFrom(s, i, word) ==
    IF i > Len(s) THEN (IF word = << >> THEN << >> ELSE <<word>>)
    ELSE IF IsSpace(s[i])
         THEN (IF word = << >> THEN << >> ELSE <<word>>) \o SplitFrom(s, i + 1, << >>)
         ELSE SplitFrom(s, i + 1, Append(word, s[i]))

split(s) == SplitFrom(s, 1, << >>)

\* str(n) of a non-negative integer, as the f-string formats page_num
RECURSIVE str(_)
str(n) ==
    IF n < 10 THEN <<DigitChars[n + 1]>>
    ELSE Append(str(n \div 10), DigitChars[(n % 10) + 1])

\* pattern elements of the regular expressions used
Lit(s) == [k |-> "lit", s |-> s]
Spaces1 == [k |-> "ws+", s |-> << >>]
Spaces0 == [k |-> "ws*", s |-> << >>]
Opt(s) == [k |-> "opt", s |-> s]
WordBoundary == [k |-> "b", s |-> << >>]

RECURSIVE SpaceRun(_, _)
SpaceRun(text, i) ==
    IF i <= Len(text) /\ IsSpace(text[i]) THEN 1 + SpaceRun(text, i + 1) ELSE 0

\* \b between positions i-1 and i
AtWordBoundary(text, i) ==
    (i > 1 /\ IsWordChar(text[i - 1])) # (i <= Len(text) /\ IsWordChar(text[i]))

RECURSIVE MatchAt(_, _, _, _)
MatchAt(pat, j, text, i) ==
    IF j > Len(pat) THEN TRUE
    ELSE LET e == pat[j] IN
         CASE e.k = "lit" -> StartsWithAt(text, i, e.s) /\ MatchAt(pat, j + 1, text, i + Len(e.s))
           [] e.k = "ws+" -> \E n \in 1..SpaceRun(text, i) : MatchAt(pat, j + 1, text, i + n)
           [] e.k = "ws*" -> \E n \in 0..SpaceRun(text, i) : MatchAt(pat, j + 1, text, i + n)
           [] e.k = "opt" -> \/ StartsWithAt(text, i, e.s) /\ MatchAt(pat, j + 1, text, i + Len(e.s))
                             \/ MatchAt(pat, j + 1, text, i)
           [] e.k = "b"   -> AtWordBoundary(text, i) /\ MatchAt(pat, j + 1, text, i)

\* re.search(pattern, text)
search(pat, text) == \E i \in 1..(Len(text) + 1) : MatchAt(pat, 1, text, i)

page_patterns(page_num) ==
    << <<Lit(<<"p", "a", "g", "e">>), Spaces1, Lit(str(page_num)), WordBoundary>>,
       <<Lit(<<"p", ".">>), Spaces0, Lit(str(page_num)), WordBoundary>>,
       <<Lit(<<"p", "g">>), Opt(<<".">>), Spaces0, Lit(str(page_num)), WordBoundary>>,
       <<Lit(<<"p">>), Spaces1, Lit(str(page_num)), WordBoundary>> >>

\* re.escape(section) matches the section string literally
section_patterns(section) ==
    << <<Lit(<<"s", "e", "c", "t", "i", "o", "n">>), Spaces1, Lit(section), WordBoundary>>,
       <<Lit(<<"s", "e", "c">>), Opt(<<".">>), Spaces1, Lit(section), WordBoundary>> >>

AnyPattern(pats, text) == \E p \in 1..Len(pats) : search(pats[p], text)

doc_stem(doc_name) == replace(replace(doc_name, <<".", "p", "d", "f">>), <<".", "P", "D", "F">>)

key_words(doc_name) == SelectSeq(split(doc_stem(doc_name)), LAMBDA w : Len(w) > 3)

doc_mentioned(source, answer_lower) ==
    LET doc_name == source.document_name
        kw == key_words(doc_name)
    IN  /\ doc_name # << >>
        /\ \/ Contains(answer_lower, lower(doc_name))
           \/ Contains(answer_lower, lower(doc_stem(doc_name)))
           \/ \E w \in 1..Min(3, Len(kw)) : Contains(answer_lower, lower(kw[w]))

\* page_number 0 stands for a source without a page (None and 0 are both falsy)
page_mentioned(source, answer_lower) ==
    /\ source.page_number # 0
    /\ AnyPattern(page_patterns(source.page_number), answer_lower)

section_mentioned(source, answer_lower) ==
    /\ source.section_number # << >>
    /\ AnyPattern(section_patterns(source.section_number), answer_lower)

\* similarity scores are in hundredths
HighSimilarity == 60

IsHighSimilarityStrict(similarity) == similarity > HighSimilarity

IsHighSimilarity(similarity) == similarity >= HighSimilarity

IsCited(source, answer_lower) ==
    \/ doc_mentioned(source, answer_lower)
    \/ page_mentioned(source, answer_lower)
    \/ section_mentioned(source, answer_lower)
    \/ IsHighSimilarity(source.similarity_score)

source_key(source) == <<source.document_name, source.page_number>>

RECURSIVE CiteLoop(_, _, _, _, _)
CiteLoop(all_sources, k, answer_lower, cited_sources, seen_docs) ==
    IF k > Len(all_sources) THEN cited_sources
    ELSE LET source == all_sources[k]
             add == IsCited(source, answer_lower) /\ source_key(source) \notin seen_docs
         IN  CiteLoop(all_sources, k + 1, answer_lower,
                      IF add THEN Append(cited_sources, source) ELSE cited_sources,
                      IF add THEN seen_docs \cup {source_key(source)} ELSE seen_docs)

\* sorted(..., reverse=True) is stable: equal scores keep their order
RECURSIVE InsertBySimilarity(_, _)
InsertBySimilarity(sorted, source) ==
    IF sorted = << >> THEN <<source>>
    ELSE IF sorted[Len(sorted)].similarity_score >= source.similarity_score
         THEN Append(sorted, source)
         ELSE Append(InsertBySimilarity(SubSeq(sorted, 1, Len(sorted) - 1), source),
                     sorted[Len(sorted)])

RECURSIVE SortedBySimilarity(_)
SortedBySimilarity(sources) ==
    IF sources = << >> THEN << >>
    ELSE InsertBySimilarity(SortedBySimilarity(SubSeq(sources, 1, Len(sources) - 1)),
                            sources[Len(sources)])

FallbackTop == 3

FallbackSourcesNone(all_sources) == << >>

FallbackSources(all_sources) == Take(SortedBySimilarity(all_sources), FallbackTop)

extract_cited_sources(answer, all_sources) ==
    IF answer = << >> \/ all_sources = << >> THEN << >>
    ELSE LET cited_sources == CiteLoop(all_sources, 1, lower(answer), << >>, {})
         IN  IF cited_sources = << >> THEN FallbackSources(all_sources)
             ELSE cited_sources

\* inputs: answers are up to MaxAnswerPhrases phrases joined by blanks
PhrasePage == <<"P", "a", "g", "e", " ", "3">>
PhraseDoc == <<"R", "1", "5", "5">>
PhraseSection == <<"s", "e", "c", ".", " ", "5", ".", "2">>
PhraseOther == <<"s", "e", "e", " ", "p", ".", "3", "0">>

AnswerPhrases == {PhrasePage, PhraseDoc, PhraseSection, PhraseOther}

RECURSIVE JoinBlank(_)
JoinBlank(ps) ==
    IF ps = << >> THEN << >>
    ELSE IF Len(ps) = 1 THEN ps[1]
    ELSE ps[1] \o <<" ">> \o JoinBlank(Tail(ps))

Answers == { JoinBlank(ps) : ps \in SeqsUpTo(AnswerPhrases, MaxAnswerPhrases) }

Source(d, p, s, sim) ==
    [document_name |-> d, page_number |-> p, section_number |-> s, similarity_score |-> sim]

DocR155 == <<"R", "1", "5", "5", ".", "p", "d", "f">>
DocGuide == <<"C", "y", "b", "e", "r", " ", "G", "u", "i", "d", "e", ".", "p", "d", "f">>

SourcePool ==
    { Source(DocR155, 3, <<"5", ".", "2">>, 40),
      Source(DocR155, 3, << >>, 60),
      Source(DocGuide, 2, << >>, 50),
      Source(DocGuide, 2, <<"A", ".", "1">>, 30),
      Source(DocGuide, 0, << >>, 50) }

IsInjective(seq) == \A i, j \in 1..Len(seq) : seq[i] = seq[j] => i = j

SourceLists == { l \in SeqsUpTo(SourcePool, MaxSources) : IsInjective(l) }

InitCite ==
    /\ SynthOff
    /\ lp = Idle
    /\ dc = Idle
    /\ dp = Idle
    /\ dq = Idle
    /\ ck = Idle
    /\ hs = Idle
    /\ tb = Idle
    /\ cs \in [pc : {"call"}, answer : Answers, all_sources : SourceLists, cited : {<< >>}]

CiteCall ==
    /\ cs.pc = "call"
    /\ cs' = [cs EXCEPT !.pc = "returned",
                        !.cited = extract_cited_sources(cs.answer, cs.all_sources)]
    /\ UNCHANGED << synthVars, lp, dc, dp, dq, ck, hs, tb >>

SpecCite == InitCite /\ [][CiteCall]_vars

Returned == cs.pc = "returned"

Keys(sources) == { source_key(sources[i]) : i \in 1..Len(sources) }

\* the claims' notion of a qualifying source
Qualifies(source, answer) ==
    \/ doc_mentioned(source, lower(answer))
    \/ page_mentioned(source, lower(answer))
    \/ section_mentioned(source, lower(answer))
    \/ source.similarity_score >= HighSimilarity

\* indices of the qualifying sources that are the first of their (document, page)
FirstQualifying(answer, all_sources) ==
    { i \in 1..Len(all_sources) :
        /\ Qualifies(all_sources[i], answer)
        /\ \A j \in 1..(i - 1) :
              Qualifies(all_sources[j], answer) =>
                  source_key(all_sources[j]) # source_key(all_sources[i]) }

C9_NoTwoEntriesShareDocumentAndPage ==
    Returned =>
        \A i, j \in 1..Len(cs.cited) :
            source_key(cs.cited[i]) = source_key(cs.cited[j]) => i = j

\* C10: for a non-empty answer with at least one qualifying source, the
\* result is exactly the qualifying sources in all_sources order, first per
\* (document, page): every source scoring at least 0.6 has its (document,
\* page) in the result and no non-qualifying source is returned.
C10_ReturnsExactlyFirstQualifyingSources ==
    LET first == FirstQualifying(cs.answer, cs.all_sources)
    IN  (Returned /\ cs.answer # << >> /\ first # {}) =>
            /\ Len(cs.cited) = Cardinality(first)
            /\ \A n \in 1..Len(cs.cited) :
                  \E i \in first :
                      /\ cs.cited[n] = cs.all_sources[i]
                      /\ Cardinality({j \in first : j < i}) = n - 1
            /\ \A i \in 1..Len(cs.all_sources) :
                  cs.all_sources[i].similarity_score >= 60 =>
                      source_key(cs.all_sources[i]) \in Keys(cs.cited)
            /\ \A n \in 1..Len(cs.cited) : Qualifies(cs.cited[n], cs.answer)

\* a source scoring 0.6 dropped behind an earlier qualifying one of the same
\* (document, page), and a non-qualifying source left out
C10_Witness ==
    /\ Returned
    /\ cs.answer # << >>
    /\ \E i, j \in 1..Len(cs.all_sources) :
          /\ i < j
          /\ Qualifies(cs.all_sources[i], cs.answer)
          /\ cs.all_sources[j].similarity_score >= 60
          /\ source_key(cs.all_sources[i]) = source_key(cs.all_sources[j])
          /\ cs.all_sources[i] # cs.all_sources[j]
    /\ \E i \in 1..Len(cs.all_sources) : ~Qualifies(cs.all_sources[i], cs.answer)
    /\ Len(cs.cited) = Len(cs.all_sources) - 2
    /\ cs.cited # << >>

-----------------------------------------------------------------------------
(* StandardComparator.detect_conflicts (SpecConflicts)                     *)

MaxStandards == 3

\* a record as extract_standard_info builds it
Std(doc, origin, domain, method, strictness) ==
    [ document |-> doc, origin |-> origin, method |-> method, domain |-> domain,
      strictness |-> strictness, year |-> 0, text |-> << WPlain >>, page |-> 1,
      section |-> "", similarity |-> 50 ]

\* "A" + "_" + "B_C" and "A_B" + "_" + "C" are the same key, and so are a
\* missing method and the method "None"
StandardPool ==
    { Std("d1", "UNECE", << "A" >>, << "B", "_", "C" >>, "Regulatory"),
      Std("d2", "Industry", << "A", "_", "B" >>, << "C" >>, "Regulatory"),
      Std("d3", "UNECE", << "A" >>, << "C" >>, "Regulatory"),
      Std("d4", "UNECE", << "A" >>, << "C" >>, "Guideline"),
      Std("d5", "Industry", << "A" >>, << "C" >>, "Regulatory"),
      Std("d6", "UNECE", << "A" >>, None, "Regulatory"),
      Std("d7", NoOrigin, << "A" >>, << "None" >>, "Regulatory") }

StandardLists == SeqsUpTo(StandardPool, MaxStandards)

InitConflicts ==
    /\ SynthOff
    /\ lp = Idle
    /\ cs = Idle
    /\ dp = Idle
    /\ dq = Idle
    /\ ck = Idle
    /\ hs = Idle
    /\ tb = Idle
    /\ dc \in [ pc : { "call" }, standards : StandardLists, conflicts : { << >> } ]

DetectCall ==
    /\ dc.pc = "call"
    /\ dc' = [ dc EXCEPT !.pc = "returned",
                         !.conflicts = detect_conflicts(dc.standards) ]
    /\ UNCHANGED << synthVars, lp, cs, dp, dq, ck, hs, tb >>

SpecConflicts == InitConflicts /\ [][DetectCall]_vars

\* positions of the records of a key
GroupOf(stds, key) == { i \in 1..Len(stds) : StandardKey(stds[i]) = key }

\* the k-th smallest member of a set of positions
RECURSIVE Nth(_, _)
Nth(S, k) ==
    LET least == CHOOSE i \in S : \A j \in S : i <= j
    IN  IF k = 1 THEN least ELSE Nth(S \ { least }, k - 1)

RecordsAt(stds, S) == [ k \in 1..Cardinality(S) |-> stds[Nth(S, k)] ]

\* C11: detect_conflicts returns exactly one record, of type
\* 'multiple_interpretations' and carrying the whole group, for every key
\* whose group has more than one member and more than one distinct origin or
\* more than one distinct strictness, and no record for any other key; two
\* records sharing domain and method but differing in origin yield exactly
\* one record for their key.
C11_OneConflictPerDisagreeingGroup ==
    dc.pc = "returned" =>
        LET stds == dc.standards
            found == dc.conflicts
            Reported(key) == { n \in 1..Len(found) : found[n].standard = key }
            Disagrees(key) ==
                LET G == GroupOf(stds, key)
                IN  /\ Cardinality(G) > 1
                    /\ \/ \E i, j \in G : stds[i].origin # stds[j].origin
                       \/ \E i, j \in G : stds[i].strictness # stds[j].strictness
        IN  /\ \A n \in 1..Len(found) :
                  /\ \E i \in 1..Len(stds) : StandardKey(stds[i]) = found[n].standard
                  /\ found[n].conflict_type = "multiple_interpretations"
                  /\ found[n].sources = RecordsAt(stds, GroupOf(stds, found[n].standard))
            /\ \A i \in 1..Len(stds) :
                  Cardinality(Reported(StandardKey(stds[i]))) =
                      IF Disagrees(StandardKey(stds[i])) THEN 1 ELSE 0
            /\ \A i, j \in 1..Len(stds) :
                  ( /\ stds[i].domain = stds[j].domain
                    /\ stds[i].method = stds[j].method
                    /\ stds[i].origin # stds[j].origin ) =>
                      Cardinality(Reported(StandardKey(stds[i]))) = 1

\* a group that differs in origin only is reported, next to a key with a
\* single record that is not
C11_Witness ==
    /\ dc.pc = "returned"
    /\ Len(dc.conflicts) = 1
    /\ \E i, j \in 1..Len(dc.standards) :
          /\ dc.standards[i].domain = dc.standards[j].domain
          /\ dc.standards[i].method = dc.standards[j].method
          /\ dc.standards[i].origin # dc.standards[j].origin
          /\ dc.standards[i].strictness = dc.standards[j].strictness
    /\ \E i \in 1..Len(dc.standards) :
          StandardKey(dc.standards[i]) # dc.conflicts[1].standard

-----------------------------------------------------------------------------
(* DocumentProcessor.chunk_text (SpecChunk)                                *)
(* A page text is a sequence of blank-separated tokens.  A token is given  *)
(* by the words the clean-up of lines 204-209 leaves of it; a word is      *)
(*   n, a  number of characters, of alphanumeric ones                      *)
(*   kw    TRUE iff it ends in section, clause or part (any case)          *)
(*   num   the section number d.d(.d)* it starts with, "" if none          *)

MaxPageTokens == 4

PageWord(n, a, kw, num) == [ n |-> n, a |-> a, kw |-> kw, num |-> num ]

\* "brake"
TokWord == << PageWord(5, 5, FALSE, "") >>
\* "ofBrake": ([a-z])([A-Z]) puts a blank between f and B
TokMerged == << PageWord(2, 2, FALSE, ""), PageWord(5, 5, FALSE, "") >>
\* "####": a run of three or more of one symbol outside the allowed set
TokRun == << >>
\* "@#$&~": five different such symbols, which the clean-up leaves
TokSymbols == << PageWord(5, 0, FALSE, "") >>
\* "Clause"
TokClause == << PageWord(6, 6, TRUE, "") >>
\* "5.2"
TokNumber == << PageWord(3, 2, FALSE, "5.2") >>

Tokens == { TokWord, TokMerged, TokRun, TokSymbols, TokClause, TokNumber }

PageTexts == SeqsUpTo(Tokens, MaxPageTokens)

\* words = text.split() of the cleaned text, each with its position
Numbered(ws) ==
    [ i \in 1..Len(ws) |->
        [ i |-> i, n |-> ws[i].n, a |-> ws[i].a, kw |-> ws[i].kw, num |-> ws[i].num ] ]

CleanedWords(text) == Numbered(Flatten(text))

\* DocumentProcessor.extract_section_numbers on a one-line text: the number
\* after the first Section/Clause/Part, else the number the text starts with
extract_section_numbers(ws) ==
    LET hits == { i \in 1..(Len(ws) - 1) : ws[i].kw /\ ws[i + 1].num # "" }
    IN  IF hits # { }
        THEN ws[(CHOOSE i \in hits : \A j \in hits : i <= j) + 1].num
        ELSE IF ws # << >> /\ ws[1].num # "" THEN ws[1].num
        ELSE "<None>"

\* metadata.get(...) of the tags; test_type, metric and dummy_type are never
\* keys of the dict
NoMetadata ==
    [ origin |-> NoOrigin, domain |-> None, strictness |-> NoOrigin,
      method |-> None, year |-> 0, source_type |-> NoOrigin ]

Max(a, b) == IF a > b THEN a ELSE b

\* f"{document_name}_p{page_number}_c{chunk_index}"
ChunkId(document_name, page_number, chunk_index) ==
    document_name \o << "_", "p" >> \o str(page_number)
                  \o << "_", "c" >> \o str(chunk_index)

DocumentChunk(ws, page_number, document_name, metadata, chunk_index) ==
    [ text |-> ws, document_name |-> document_name, page_number |-> page_number,
      section_number |-> extract_section_numbers(ws),
      chunk_id |-> ChunkId(document_name, page_number, chunk_index),
      origin |-> metadata.origin, domain |-> metadata.domain,
      strictness |-> metadata.strictness, method |-> metadata.method,
      year |-> metadata.year, source_type |-> metadata.source_type,
      test_type |-> NoOrigin, metric |-> NoOrigin, dummy_type |-> NoOrigin ]

\* sum(len(w) + 1 for w in ws)
LengthOf(ws) == SumN(ws) + Len(ws)

\* current_chunk[-count:] if len(current_chunk) > count else current_chunk
OverlapWords(current_chunk, count) ==
    IF Len(current_chunk) > count
    THEN SubSeq(current_chunk, Len(current_chunk) - count + 1, Len(current_chunk))
    ELSE current_chunk

\* overlap_words_count, line 223
OverlapWordsCount(words, chunk_size, chunk_overlap) ==
    IF words # << >> THEN Max(1, (Len(words) * chunk_overlap) \div chunk_size) ELSE 0

\* The for loop of lines 225-255 from word i on, one emission per step; cfg
\* holds the arguments.  The loop appends words (lines 226-227) until
\* current_length reaches chunk_size, at word j (line 229); it emits the
\* chunk (lines 230-249) and goes on from the overlap words (lines 251-255).
\* When the length is not reached again the rest of the words stay in
\* current_chunk.  kept is history: the overlap words after each emission.
RECURSIVE ChunkLoop(_, _, _, _)
ChunkLoop(words, i, cfg, st) ==
    LET Reached(j) == st.current_length + LengthOf(SubSeq(words, i, j))
                          >= cfg.chunk_size
    IN  IF i > Len(words) \/ ~Reached(Len(words))
        THEN [ st EXCEPT
                 !.current_chunk = st.current_chunk \o SubSeq(words, i, Len(words)),
                 !.current_length = st.current_length
                                      + LengthOf(SubSeq(words, i, Len(words))) ]
        ELSE LET j == CHOOSE j \in i..Len(words) :
                              Reached(j) /\ (j = i \/ ~Reached(j - 1))
                 current_chunk == st.current_chunk \o SubSeq(words, i, j)
                 overlap_words == OverlapWords(current_chunk, cfg.overlap_words_count)
             IN  ChunkLoop(words, j + 1, cfg,
                     [ chunks |-> Append(st.chunks,
                           DocumentChunk(current_chunk, cfg.page_number,
                                         cfg.document_name, cfg.metadata,
                                         st.chunk_index)),
                       current_chunk |-> overlap_words,
                       current_length |-> LengthOf(overlap_words),
                       chunk_index |-> st.chunk_index + 1,
                       kept |-> Append(st.kept, overlap_words) ])

ChunkReadablePct == 60

\* alnum_ratio >= 0.6, lines 262-263
FinalIsReadable(ws) == ReadableRatioAtLeast(ws, ChunkReadablePct)

\* chunk_text from line 216 to the end of the for loop: the loop's locals
ChunkLoopEnd(text, page_number, document_name, metadata, chunk_size, chunk_overlap) ==
    LET words == CleanedWords(text)
        cfg == [ chunk_size |-> chunk_size,
                 overlap_words_count |->
                     OverlapWordsCount(words, chunk_size, chunk_overlap),
                 page_number |-> page_number, document_name |-> document_name,
                 metadata |-> metadata ]
    IN  ChunkLoop(words, 1, cfg,
                  [ chunks |-> << >>, current_chunk |-> << >>,
                    current_length |-> 0, chunk_index |-> 0, kept |-> << >> ])

\* DocumentProcessor.chunk_text
chunk_text(text, page_number, document_name, metadata, chunk_size, chunk_overlap) ==
    IF text = << >> THEN << >>
    ELSE LET st == ChunkLoopEnd(text, page_number, document_name, metadata,
                                chunk_size, chunk_overlap)
         IN  IF st.current_chunk # << >> /\ FinalIsReadable(st.current_chunk)
             THEN Append(st.chunks,
                         DocumentChunk(st.current_chunk, page_number, document_name,
                                       metadata, st.chunk_index))
             ELSE st.chunks

\* history: the overlap words chunk_text kept after each full-size chunk
OverlapsKept(text, chunk_size, chunk_overlap) ==
    IF text = << >> THEN << >>
    ELSE ChunkLoopEnd(text, 1, << >>, NoMetadata, chunk_size, chunk_overlap).kept

\* DocumentProcessor(chunk_size, chunk_overlap): 600 and 100 scaled down, and
\* a processor with half a chunk of overlap
ChunkConfigs ==
    { [ chunk_size |-> 12, chunk_overlap |-> 2 ],
      [ chunk_size |-> 6, chunk_overlap |-> 3 ] }

DocName == << "R", "1", "5", "5" >>

InitChunk ==
    /\ SynthOff
    /\ lp = Idle
    /\ cs = Idle
    /\ dc = Idle
    /\ dp = Idle
    /\ dq = Idle
    /\ hs = Idle
    /\ tb = Idle
    /\ ck \in [ pc : { "call" }, text : PageTexts, config : ChunkConfigs,
                chunks : { << >> }, kept : { << >> } ]

ChunkCall ==
    /\ ck.pc = "call"
    /\ ck' = [ ck EXCEPT !.pc = "returned",
                 !.chunks = chunk_text(ck.text, 1, DocName, NoMetadata,
                                       ck.config.chunk_size, ck.config.chunk_overlap),
                 !.kept = OverlapsKept(ck.text, ck.config.chunk_size,
                                       ck.config.chunk_overlap) ]
    /\ UNCHANGED << synthVars, lp, cs, dc, dp, dq, hs, tb >>

SpecChunk == InitChunk /\ [][ChunkCall]_vars

\* the last k and the first k words of a chunk text
LastWords(ws, k) == SubSeq(ws, Max(1, Len(ws) - k + 1), Len(ws))

\* C14: for every pair of consecutive chunks of a page, the final chunk
\* included, the last k words of chunk i are the first k words of chunk
\* i+1, with k = max(1, floor(W * chunk_overlap / chunk_size)) and W the
\* page's word count.
C14_TailOfChunkIsHeadOfNext ==
    ck.pc = "returned" =>
        LET W == Len(CleanedWords(ck.text))
            k == Max(1, (W * ck.config.chunk_overlap) \div ck.config.chunk_size)
        IN  \A i \in 1..(Len(ck.chunks) - 1) :
                LastWords(ck.chunks[i].text, k) = Take(ck.chunks[i + 1].text, k)

\* C15: every chunk emitted by chunk_text, full-size or final, has a
\* non-empty text of which at least 0.6 is alphanumeric or whitespace.
C15_EveryChunkIsReadable ==
    ck.pc = "returned" =>
        \A i \in 1..Len(ck.chunks) :
            /\ ck.chunks[i].text # << >>
            /\ 10 * (SumA(ck.chunks[i].text) + Blanks(ck.chunks[i].text))
                   >= 6 * CharLen(ck.chunks[i].text)

\* C29: every chunk of a page after the first, the final one included,
\* holds a word occurrence of the page that lies after the last word of the
\* chunk before it: no chunk is made of overlap words only.
C29_EveryChunkHasANewWord ==
    ck.pc = "returned" =>
        \A m \in 2..Len(ck.chunks) :
            \E k \in 1..Len(ck.chunks[m].text) :
                ck.chunks[m].text[k].i
                    > ck.chunks[m - 1].text[Len(ck.chunks[m - 1].text)].i

-----------------------------------------------------------------------------
(* chunk_text on a page of prose with the default configuration            *)
(* (SpecProse)                                                             *)

\* config.py: CHUNK_SIZE, CHUNK_OVERLAP; the page length of the scenario
ProseChunkSize == 600
ProseChunkOverlap == 100
ProseChars == 1400

\* words of ordinary length, in letters
MinWordLetters == 2
MaxWordLetters == 10

\* A page of `total` characters: words of a and b letters in turn separated
\* by single blanks, the last word taking what is left.
ProseStart(i, a, b) ==
    ((i - 1) \div 2) * (a + b + 2) + (IF i % 2 = 0 THEN a + 1 ELSE 0)

ProsePage(total, a, b) ==
    LET count == Cardinality({ i \in 1..total : ProseStart(i, a, b) < total })
    IN  [ i \in 1..count |->
            LET left == total - ProseStart(i, a, b)
                letters == IF i % 2 = 0 THEN b ELSE a
                n == IF left <= letters + 1 THEN left ELSE letters
            IN  << PageWord(n, n, FALSE, "") >> ]

ProsePages ==
    { ProsePage(ProseChars, a, b) : a, b \in MinWordLetters..MaxWordLetters }

\* DocumentProcessor() with the values of config.py, and a processor with
\* half a chunk of overlap
ProseConfigs ==
    { [ chunk_size |-> ProseChunkSize, chunk_overlap |-> ProseChunkOverlap ],
      [ chunk_size |-> ProseChunkSize, chunk_overlap |-> ProseChunkSize \div 2 ] }

InitProse ==
    /\ SynthOff
    /\ lp = Idle
    /\ cs = Idle
    /\ dc = Idle
    /\ dp = Idle
    /\ dq = Idle
    /\ hs = Idle
    /\ tb = Idle
    /\ ck \in [ pc : { "call" }, text : ProsePages, config : ProseConfigs,
                chunks : { << >> }, kept : { << >> } ]

SpecProse == InitProse /\ [][ChunkCall]_vars

\* a chunk the loop emitted: its accumulated length reached chunk_size
IsFullSize(chunk, chunk_size) == LengthOf(chunk.text) >= chunk_size

\* C22: with chunk_size 600 and chunk_overlap 100, a page of 1400
\* characters of prose gives exactly 2 full-size chunks, followed by at
\* most one final partial chunk, which is at least 0.6 readable.
C22_TwoFullChunksThenGatedFinal ==
    (ck.pc = "returned" /\ CharLen(Flatten(ck.text)) = ProseChars
                        /\ ck.config.chunk_size = ProseChunkSize
                        /\ ck.config.chunk_overlap = ProseChunkOverlap) =>
        /\ Len(ck.chunks) \in { 2, 3 }
        /\ \A i \in 1..2 : IsFullSize(ck.chunks[i], ProseChunkSize)
        /\ Len(ck.chunks) = 3 =>
              /\ ~IsFullSize(ck.chunks[3], ProseChunkSize)
              /\ FinalIsReadable(ck.chunks[3].text)

\* C28: with 0 < chunk_overlap < chunk_size and words much shorter than
\* chunk_size, the overlap words kept after a full-size chunk are fewer
\* than the words of that chunk and their accumulated length is below
\* chunk_size, so the next full-size chunk takes at least two more words.
C28_OverlapIsShorterThanChunk ==
    (/\ ck.pc = "returned"
     /\ 0 < ck.config.chunk_overlap
     /\ ck.config.chunk_overlap < ck.config.chunk_size) =>
        \A m \in 1..Len(ck.kept) :
            /\ Len(ck.kept[m]) < Len(ck.chunks[m].text)
            /\ LengthOf(ck.kept[m]) < ck.config.chunk_size
            /\ m < Len(ck.kept) =>
                  Len(ck.chunks[m + 1].text) >= Len(ck.kept[m]) + 2

-----------------------------------------------------------------------------
(* DocumentProcessor.process_directory (SpecDocs)                          *)
(* A file of the directory is a record                                     *)
(*   parent, stem, suffix  of its path, as character sequences             *)
(*   nested     TRUE iff it lies in a subfolder of documents_dir           *)
(*   pages      the text of each page of the PDF (<< >>: no text)          *)
(*   primary, secondary   what pdfplumber and PyPDF2 do on it              *)

MaxFiles == 2

Has(text, lit) == Contains(text, lit)

\* metadata["origin"], ["strictness"], ["source_type"]: lines 76-95
OriginOf(parent_folder, file_name) ==
    IF Has(parent_folder, << "u", "n", "e", "c", "e" >>)
    THEN << "UNECE", "Regulatory", "Regulation" >>
    ELSE IF Has(parent_folder, << "n", "h", "t", "s", "a" >>)
    THEN << "NHTSA", "Guideline", "Guideline" >>
    ELSE IF \/ Has(parent_folder, << "f", "u", "n", "c", "t", "i", "o", "n", "a", "l", "_", "s", "a", "f", "e", "t", "y" >>)
            \/ Has(file_name, << "t", "u", "v" >>)
            \/ Has(file_name, << "d", "e", "k", "r", "a" >>)
    THEN << "Industry", "Standard", "Standard" >>
    ELSE IF Has(parent_folder, << "v", "a", "l", "i", "d", "a", "t", "i", "o", "n" >>)
    THEN << "Industry", "Best Practice", "Whitepaper" >>
    ELSE << "Industry", "Standard", "Document" >>

DomainOfWithPassive(parent_folder, file_name) ==
    IF Has(parent_folder, << "p", "a", "s", "s", "i", "v", "e" >>)
    THEN << "Passive Safety" >>
    ELSE << "General Safety" >>

\* metadata["domain"]: lines 98-112
DomainOf(parent_folder, file_name) ==
    IF Has(parent_folder, << "c", "y", "b", "e", "r", "s", "e", "c", "u", "r", "i", "t", "y" >>) \/ Has(file_name, << "r", "1", "5", "5" >>)
    THEN << "Cybersecurity" >>
    ELSE IF Has(parent_folder, << "s", "o", "f", "t", "w", "a", "r", "e", "_", "u", "p", "d", "a", "t", "e" >>) \/ Has(file_name, << "r", "1", "5", "6" >>)
    THEN << "Software Update" >>
    ELSE IF \/ Has(parent_folder, << "f", "u", "n", "c", "t", "i", "o", "n", "a", "l", "_", "s", "a", "f", "e", "t", "y" >>)
            \/ Has(file_name, << "a", "s", "i", "l" >>)
            \/ Has(file_name, << "i", "s", "o", "_", "2", "6", "2", "6", "2" >>)
    THEN << "Functional Safety" >>
    ELSE IF Has(parent_folder, << "a", "d", "a", "s" >>) \/ Has(file_name, << "a", "d", "a", "s" >>)
    THEN << "ADAS" >>
    ELSE IF Has(file_name, << "d", "r", "i", "v", "e", "r", "_", "m", "o", "n", "i", "t", "o", "r", "i", "n", "g" >>) \/ Has(file_name, << "d", "m", "s" >>)
    THEN << "Driver Monitoring" >>
    ELSE IF Has(parent_folder, << "v", "a", "l", "i", "d", "a", "t", "i", "o", "n" >>)
    THEN << "Validation" >>
    ELSE << "General Safety" >>

\* metadata["method"]: lines 115-124
MethodOf(file_name) ==
    IF Has(file_name, << "r", "1", "5", "5" >>) THEN << "UNECE R155" >>
    ELSE IF Has(file_name, << "r", "1", "5", "6" >>) THEN << "UNECE R156" >>
    ELSE IF Has(file_name, << "i", "s", "o", "_", "2", "6", "2", "6", "2" >>) \/ Has(file_name, << "i", "s", "o", "2", "6", "2", "6", "2" >>)
    THEN << "ISO 26262" >>
    ELSE IF Has(file_name, << "a", "s", "i", "l" >>) THEN << "ISO 26262 ASIL" >>
    ELSE IF Has(file_name, << "h", "a", "r", "a" >>) THEN << "HARA (ISO 26262)" >>
    ELSE None

IsDigit(c) == IsIn(c, DigitChars)

DigitValue(c) == (CHOOSE i \in 1..Len(DigitChars) : DigitChars[i] = c) - 1

\* positions where \b(19|20)\d{2}\b matches
YearMatches(text) ==
    { i \in 1..(Len(text) - 3) :
        /\ AtWordBoundary(text, i)
        /\ \/ text[i] = "1" /\ text[i + 1] = "9"
           \/ text[i] = "2" /\ text[i + 1] = "0"
        /\ IsDigit(text[i + 2]) /\ IsDigit(text[i + 3])
        /\ AtWordBoundary(text, i + 4) }

\* metadata["year"]: lines 126-128; 0 stands for None
YearOf(file_name) ==
    IF YearMatches(file_name) = { } THEN 0
    ELSE LET i == CHOOSE i \in YearMatches(file_name) :
                      \A j \in YearMatches(file_name) : i <= j
         IN  1000 * DigitValue(file_name[i]) + 100 * DigitValue(file_name[i + 1])
             + 10 * DigitValue(file_name[i + 2]) + DigitValue(file_name[i + 3])

\* DocumentProcessor.extract_metadata_from_path
extract_metadata_from_path(pdf_path) ==
    LET parent_folder == lower(pdf_path.parent)
        file_name == lower(pdf_path.stem)
        o == OriginOf(parent_folder, file_name)
    IN  [ origin |-> o[1], strictness |-> o[2], source_type |-> o[3],
          domain |-> DomainOf(parent_folder, file_name),
          method |-> MethodOf(file_name),
          year |-> YearOf(file_name) ]

\* an extractor run: it yields every page, or raises after the first `after`
Succeeds == [ ok |-> TRUE, after |-> 0 ]
FailsAfter(k) == [ ok |-> FALSE, after |-> k ]

\* the {page_number, text} entries an extractor appends over the first upto
\* pages: pages without text are skipped, their number is not reused
RECURSIVE PagesRead(_, _, _)
PagesRead(pdf_pages, from, upto) ==
    IF from > upto \/ from > Len(pdf_pages) THEN << >>
    ELSE (IF pdf_pages[from] # << >>
          THEN << [ page_number |-> from, text |-> pdf_pages[from] ] >>
          ELSE << >>)
         \o PagesRead(pdf_pages, from + 1, upto)

YieldedBy(outcome, pdf_pages) ==
    PagesRead(pdf_pages, 1, IF outcome.ok THEN Len(pdf_pages) ELSE outcome.after)

extract_text_from_pdf_keeps_pages(file) ==
    IF file.primary.ok THEN YieldedBy(file.primary, file.pages)
    ELSE YieldedBy(file.primary, file.pages) \o YieldedBy(file.secondary, file.pages)

\* DocumentProcessor.extract_text_from_pdf: both extractors append to the
\* one list `pages`
extract_text_from_pdf(file) ==
    IF file.primary.ok THEN YieldedBy(file.primary, file.pages)
    ELSE IF file.secondary.ok
         THEN YieldedBy(file.primary, file.pages) \o YieldedBy(file.secondary, file.pages)
         ELSE << >>

\* the DocumentProcessor of SpecDocs: 600 and 100 scaled down
DocsConfig == [ chunk_size |-> 12, chunk_overlap |-> 2 ]

RECURSIVE ChunksOfPages(_, _, _)
ChunksOfPages(pages, document_name, metadata) ==
    IF pages = << >> THEN << >>
    ELSE chunk_text(Head(pages).text, Head(pages).page_number, document_name,
                    metadata, DocsConfig.chunk_size, DocsConfig.chunk_overlap)
         \o ChunksOfPages(Tail(pages), document_name, metadata)

\* DocumentProcessor.process_document
process_document(file) ==
    ChunksOfPages(extract_text_from_pdf(file), file.stem,
                  extract_metadata_from_path(file))

\* page contents
PageBlank == << >>
PageShort == << TokWord >>
PageLong == << TokWord, TokWord, TokWord >>

File(parent, stem, suffix, nested, pdf_pages) ==
    [ parent |-> parent, stem |-> stem, suffix |-> suffix, nested |-> nested,
      pages |-> pdf_pages, primary |-> Succeeds, secondary |-> Succeeds ]

\* unece_regulations/R155.pdf and cybersecurity/R155.pdf in subfolders,
\* data/notes_2021.pdf and data/readme.txt directly in documents_dir
FilesOnDisk ==
    { File(<< "u", "n", "e", "c", "e", "_", "r", "e", "g", "u", "l", "a", "t", "i", "o", "n", "s" >>, << "R", "1", "5", "5" >>, << ".", "p", "d", "f" >>, TRUE,
           << PageLong, PageShort >>),
      File(<< "c", "y", "b", "e", "r", "s", "e", "c", "u", "r", "i", "t", "y" >>, << "R", "1", "5", "5" >>, << ".", "p", "d", "f" >>, TRUE,
           << PageShort, PageShort >>),
      File(<< "d", "a", "t", "a" >>, << "n", "o", "t", "e", "s", "_", "2", "0", "2", "1" >>, << ".", "p", "d", "f" >>, FALSE,
           << PageBlank, PageShort >>),
      File(<< "d", "a", "t", "a" >>, << "r", "e", "a", "d", "m", "e" >>, << ".", "t", "x", "t" >>, FALSE,
           << PageShort >>) }

IsPdf(file) == file.suffix = << ".", "p", "d", "f" >>

\* an extractor fails before any page, or after any number of them
FailPoints(file) == 0..Len(file.pages)

ExtractorRuns(file) ==
    { << Succeeds, Succeeds >> }
    \cup { << FailsAfter(k), s >> :
             k \in FailPoints(file),
             s \in { Succeeds } \cup { FailsAfter(j) : j \in FailPoints(file) } }

FileCases ==
    UNION { { [ f EXCEPT !.primary = r[1], !.secondary = r[2] ] : r \in ExtractorRuns(f) } :
              f \in { g \in FilesOnDisk : IsPdf(g) } }
    \cup { g \in FilesOnDisk : ~IsPdf(g) }

PathOf(file) == << file.parent, file.stem, file.suffix >>

\* directory listings, in the order the file system enumerates them
Directories ==
    { d \in SeqsUpTo(FileCases, MaxFiles) :
          \A i, j \in 1..Len(d) : PathOf(d[i]) = PathOf(d[j]) => i = j }

\* documents_dir.rglob("*.pdf") or documents_dir.glob("*.pdf")
PdfFiles(directory, recursive) ==
    SelectSeq(directory, LAMBDA f : IsPdf(f) /\ (recursive \/ ~f.nested))

InitDocs ==
    /\ SynthOff
    /\ lp = Idle
    /\ cs = Idle
    /\ dc = Idle
    /\ dq = Idle
    /\ ck = Idle
    /\ hs = Idle
    /\ tb = Idle
    /\ \E d \in Directories, r \in BOOLEAN :
          dp = [ pc |-> "start", directory |-> d, recursive |-> r,
                 pdf_files |-> << >>, next |-> 0, all_chunks |-> << >>,
                 pages_of |-> << >>, chunks_of |-> << >> ]

\* process_directory up to the loop: lines 328-338
ListFiles ==
    /\ dp.pc = "start"
    /\ LET pdf_files == PdfFiles(dp.directory, dp.recursive)
       IN  dp' = [ dp EXCEPT !.pdf_files = pdf_files,
                             !.next = IF pdf_files = << >> THEN 0 ELSE 1,
                             !.pc = IF pdf_files = << >> THEN "done" ELSE "loop" ]
    /\ UNCHANGED << synthVars, lp, cs, dc, dq, ck, hs, tb >>

\* one pass of the loop of lines 339-341, and the return after the last;
\* pages_of and chunks_of record what each file gave
ProcessDocument ==
    /\ dp.pc = "loop"
    /\ LET pdf_path == dp.pdf_files[dp.next]
           chunks == process_document(pdf_path)
       IN  dp' = [ dp EXCEPT !.all_chunks = dp.all_chunks \o chunks,
                             !.pages_of = Append(dp.pages_of, extract_text_from_pdf(pdf_path)),
                             !.chunks_of = Append(dp.chunks_of, chunks),
                             !.next = IF dp.next = Len(dp.pdf_files) THEN 0 ELSE dp.next + 1,
                             !.pc = IF dp.next = Len(dp.pdf_files) THEN "done" ELSE "loop" ]
    /\ UNCHANGED << synthVars, lp, cs, dc, dq, ck, hs, tb >>

NextDocs == ListFiles \/ ProcessDocument

SpecDocs == InitDocs /\ [][NextDocs]_vars

\* C12: no two chunks of the list process_directory returns have the same
\* chunk_id.
C12_ChunkIdsAreUnique ==
    dp.pc = "done" =>
        \A i, j \in 1..Len(dp.all_chunks) :
            dp.all_chunks[i].chunk_id = dp.all_chunks[j].chunk_id => i = j

\* C13: whatever the two extractors do, the page numbers of the chunks of a
\* document are non-decreasing in emission order.
C13_PageNumbersNeverDecrease ==
    \A f \in 1..Len(dp.chunks_of) :
        \A i \in 1..(Len(dp.chunks_of[f]) - 1) :
            dp.chunks_of[f][i].page_number <= dp.chunks_of[f][i + 1].page_number

BothFail(file) == ~file.primary.ok /\ ~file.secondary.ok

\* C17: a document on which both extractors fail yields no page and no
\* chunk, the run still ends, and the returned list is the chunks of the
\* other documents in file-enumeration order.
C17_FailedDocumentIsSkipped ==
    /\ \A f \in 1..Len(dp.chunks_of) :
          BothFail(dp.pdf_files[f]) =>
              dp.pages_of[f] = << >> /\ dp.chunks_of[f] = << >>
    /\ dp.pc = "done" =>
          /\ Len(dp.chunks_of) = Len(dp.pdf_files)
          /\ dp.all_chunks =
                Flatten([ f \in 1..Len(dp.pdf_files) |->
                            IF BothFail(dp.pdf_files[f]) THEN << >> ELSE dp.chunks_of[f] ])
          /\ \A f \in 1..Len(dp.pdf_files) :
                ( /\ dp.pdf_files[f].primary.ok
                  /\ \E p \in 1..Len(dp.pdf_files[f].pages) :
                        dp.pdf_files[f].pages[p] = PageShort ) =>
                    dp.chunks_of[f] # << >>

\* both extractors fail on the first file, the primary one after a page,
\* and the second file still gives its chunks
C17_Witness ==
    /\ dp.pc = "done"
    /\ Len(dp.pdf_files) = 2
    /\ BothFail(dp.pdf_files[1])
    /\ dp.pdf_files[1].primary.after = 1
    /\ dp.all_chunks # << >>
    /\ dp.all_chunks = dp.chunks_of[2]

\* the pages the secondary extractor yields on its own
SecondaryPages(file) ==
    [ k \in 1..Cardinality({ p \in 1..Len(file.pages) : file.pages[p] # << >> }) |->
        LET p == Nth({ q \in 1..Len(file.pages) : file.pages[q] # << >> }, k)
        IN  [ page_number |-> p, text |-> file.pages[p] ] ]

\* C19: when the primary extractor fails after one or more pages and the
\* secondary succeeds, the page list is exactly the secondary's pages:
\* every page number at most once, nothing of the failed pass left.
C19_FallbackReplacesPartialPages ==
    \A f \in 1..Len(dp.pages_of) :
        LET file == dp.pdf_files[f]
            pages == dp.pages_of[f]
        IN  (~file.primary.ok /\ file.primary.after >= 1 /\ file.secondary.ok) =>
                /\ pages = SecondaryPages(file)
                /\ \A i, j \in 1..Len(pages) :
                      pages[i].page_number = pages[j].page_number => i = j

-----------------------------------------------------------------------------
(* DomainClassifier.get_primary_domain (SpecDomain)                        *)

MaxQuestionKeywords == 1

\* DOMAIN_KEYWORDS, in the order of the dict
DOMAIN_KEYWORDS == <<
    [ domain |-> "Passive Safety",
      keywords |->
        << << "p", "a", "s", "s", "i", "v", "e", " ", "s", "a", "f", "e", "t", "y" >>,
           << "c", "r", "a", "s", "h" >>,
           << "c", "o", "l", "l", "i", "s", "i", "o", "n" >>,
           << "i", "m", "p", "a", "c", "t" >>,
           << "a", "i", "r", "b", "a", "g" >>,
           << "s", "e", "a", "t", "b", "e", "l", "t" >>,
           << "r", "e", "s", "t", "r", "a", "i", "n", "t" >>,
           << "d", "u", "m", "m", "y" >>,
           << "h", "i", "c", "t" >>,
           << "c", "h", "e", "s", "t", " ", "d", "e", "f", "l", "e", "c", "t", "i", "o", "n" >>,
           << "t", "i", "b", "i", "a" >>,
           << "i", "n", "t", "r", "u", "s", "i", "o", "n" >>,
           << "f", "r", "o", "n", "t", "a", "l" >>,
           << "s", "i", "d", "e", " ", "i", "m", "p", "a", "c", "t" >>,
           << "p", "o", "l", "e", " ", "t", "e", "s", "t" >>,
           << "p", "e", "d", "e", "s", "t", "r", "i", "a", "n" >>,
           << "p", "o", "s", "t", "-", "c", "r", "a", "s", "h" >>,
           << "r", "9", "4" >>,
           << "r", "1", "3", "7" >>,
           << "f", "m", "v", "s", "s", " ", "2", "0", "8" >>,
           << "n", "c", "a", "p" >>,
           << "e", "u", "r", "o", " ", "n", "c", "a", "p" >>,
           << "o", "f", "f", "s", "e", "t", " ", "b", "a", "r", "r", "i", "e", "r" >>,
           << "d", "e", "f", "o", "r", "m", "a", "b", "l", "e", " ", "b", "a", "r", "r", "i", "e", "r" >>,
           << "r", "i", "g", "i", "d", " ", "b", "a", "r", "r", "i", "e", "r" >>,
           << "m", "p", "d", "b" >>,
           << "w", "o", "r", "l", "d", "s", "i", "d" >>,
           << "h", "y", "b", "r", "i", "d", "-", "i", "i", "i" >>,
           << "t", "h", "o", "r" >>,
           << "h", "i", "c" >>,
           << "i", "n", "j", "u", "r", "y", " ", "c", "r", "i", "t", "e", "r", "i", "a" >>,
           << "o", "c", "c", "u", "p", "a", "n", "t", " ", "p", "r", "o", "t", "e", "c", "t", "i", "o", "n" >> >> ],
    [ domain |-> "Functional Safety",
      keywords |->
        << << "f", "u", "n", "c", "t", "i", "o", "n", "a", "l", " ", "s", "a", "f", "e", "t", "y" >>,
           << "i", "s", "o", " ", "2", "6", "2", "6", "2" >>,
           << "a", "s", "i", "l" >>,
           << "h", "a", "r", "a" >>,
           << "s", "a", "f", "e", "t", "y", " ", "g", "o", "a", "l" >>,
           << "s", "a", "f", "e", "t", "y", " ", "r", "e", "q", "u", "i", "r", "e", "m", "e", "n", "t" >>,
           << "s", "a", "f", "e", "t", "y", " ", "c", "o", "n", "c", "e", "p", "t" >>,
           << "s", "a", "f", "e", "t", "y", " ", "l", "i", "f", "e", "c", "y", "c", "l", "e" >>,
           << "f", "u", "s", "a" >>,
           << "s", "a", "f", "e", "t", "y", " ", "i", "n", "t", "e", "g", "r", "i", "t", "y" >>,
           << "r", "a", "n", "d", "o", "m", " ", "f", "a", "i", "l", "u", "r", "e" >>,
           << "s", "y", "s", "t", "e", "m", "a", "t", "i", "c", " ", "f", "a", "i", "l", "u", "r", "e" >> >> ],
    [ domain |-> "Cybersecurity",
      keywords |->
        << << "c", "y", "b", "e", "r", "s", "e", "c", "u", "r", "i", "t", "y" >>,
           << "r", "1", "5", "5" >>,
           << "c", "y", "b", "e", "r", " ", "s", "e", "c", "u", "r", "i", "t", "y" >>,
           << "t", "h", "r", "e", "a", "t" >>,
           << "v", "u", "l", "n", "e", "r", "a", "b", "i", "l", "i", "t", "y" >>,
           << "a", "t", "t", "a", "c", "k" >>,
           << "s", "e", "c", "u", "r", "i", "t", "y" >>,
           << "u", "n", "a", "u", "t", "h", "o", "r", "i", "z", "e", "d", " ", "a", "c", "c", "e", "s", "s" >>,
           << "d", "a", "t", "a", " ", "p", "r", "o", "t", "e", "c", "t", "i", "o", "n" >> >> ],
    [ domain |-> "ADAS",
      keywords |->
        << << "a", "d", "a", "s" >>,
           << "a", "d", "v", "a", "n", "c", "e", "d", " ", "d", "r", "i", "v", "e", "r", " ", "a", "s", "s", "i", "s", "t", "a", "n", "c", "e" >>,
           << "a", "u", "t", "o", "n", "o", "m", "o", "u", "s" >>,
           << "s", "e", "l", "f", "-", "d", "r", "i", "v", "i", "n", "g" >>,
           << "l", "a", "n", "e", " ", "k", "e", "e", "p", "i", "n", "g" >>,
           << "a", "d", "a", "p", "t", "i", "v", "e", " ", "c", "r", "u", "i", "s", "e" >>,
           << "c", "o", "l", "l", "i", "s", "i", "o", "n", " ", "a", "v", "o", "i", "d", "a", "n", "c", "e" >>,
           << "a", "e", "b" >> >> ],
    [ domain |-> "Driver Monitoring",
      keywords |->
        << << "d", "r", "i", "v", "e", "r", " ", "m", "o", "n", "i", "t", "o", "r", "i", "n", "g" >>,
           << "d", "m", "s" >>,
           << "d", "r", "i", "v", "e", "r", " ", "a", "t", "t", "e", "n", "t", "i", "o", "n" >>,
           << "f", "a", "t", "i", "g", "u", "e" >>,
           << "d", "r", "i", "v", "e", "r", " ", "s", "t", "a", "t", "e" >>,
           << "d", "r", "i", "v", "e", "r", " ", "d", "i", "s", "t", "r", "a", "c", "t", "i", "o", "n" >>,
           << "e", "y", "e", " ", "t", "r", "a", "c", "k", "i", "n", "g" >> >> ],
    [ domain |-> "Software Update",
      keywords |->
        << << "s", "o", "f", "t", "w", "a", "r", "e", " ", "u", "p", "d", "a", "t", "e" >>,
           << "r", "1", "5", "6" >>,
           << "o", "t", "a" >>,
           << "o", "v", "e", "r", " ", "t", "h", "e", " ", "a", "i", "r" >>,
           << "f", "i", "r", "m", "w", "a", "r", "e", " ", "u", "p", "d", "a", "t", "e" >>,
           << "s", "o", "f", "t", "w", "a", "r", "e", " ", "v", "e", "r", "s", "i", "o", "n" >>,
           << "u", "p", "d", "a", "t", "e", " ", "m", "a", "n", "a", "g", "e", "m", "e", "n", "t" >> >> ],
    [ domain |-> "Validation",
      keywords |->
        << << "v", "a", "l", "i", "d", "a", "t", "i", "o", "n" >>,
           << "t", "e", "s", "t", "i", "n", "g" >>,
           << "t", "e", "s", "t", " ", "c", "a", "s", "e" >>,
           << "v", "e", "r", "i", "f", "i", "c", "a", "t", "i", "o", "n" >>,
           << "t", "e", "s", "t", " ", "s", "c", "e", "n", "a", "r", "i", "o" >>,
           << "t", "e", "s", "t", " ", "p", "r", "o", "c", "e", "d", "u", "r", "e" >>,
           << "t", "e", "s", "t", " ", "c", "o", "v", "e", "r", "a", "g", "e" >> >> ] >>

\* score of one domain: the number of its keywords that occur in the question
Score(keywords, question_lower) ==
    Cardinality({ k \in 1..Len(keywords) : Contains(question_lower, keywords[k]) })

\* domain_scores.items(): the domains with a positive score, in dict order
domain_scores(question_lower) ==
    LET scored == [ d \in 1..Len(DOMAIN_KEYWORDS) |->
                      [ domain |-> DOMAIN_KEYWORDS[d].domain,
                        score |-> Score(DOMAIN_KEYWORDS[d].keywords, question_lower) ] ]
    IN  SelectSeq(scored, LAMBDA e : e.score > 0)

\* sorted(..., key=score, reverse=True) is stable: ties keep dict order
RECURSIVE InsertByScore(_, _)
InsertByScore(sorted, e) ==
    IF sorted = << >> THEN << e >>
    ELSE IF sorted[Len(sorted)].score >= e.score THEN Append(sorted, e)
    ELSE Append(InsertByScore(SubSeq(sorted, 1, Len(sorted) - 1), e), sorted[Len(sorted)])

RECURSIVE SortedByScore(_)
SortedByScore(es) ==
    IF es = << >> THEN << >>
    ELSE InsertByScore(SortedByScore(SubSeq(es, 1, Len(es) - 1)), es[Len(es)])

\* DomainClassifier.classify_domain
classify_domain(q) ==
    LET sorted_domains == SortedByScore(domain_scores(lower(q)))
    IN  [ i \in 1..Len(sorted_domains) |-> sorted_domains[i].domain ]

\* domains[0] if domains else "General Safety"
PrimaryOf(domains) == IF domains # << >> THEN domains[1] ELSE "General Safety"

\* DomainClassifier.get_primary_domain
get_primary_domain(q) == PrimaryOf(classify_domain(q))

UpperChar(c) ==
    IF IsIn(c, LowerCase)
    THEN UpperCase[CHOOSE i \in 1..Len(LowerCase) : LowerCase[i] = c]
    ELSE c

\* the question as typed at the start of a sentence
Capitalized(s) == IF s = << >> THEN s ELSE << UpperChar(s[1]) >> \o Tail(s)

\* questions made of 1..MaxQuestionKeywords keywords of one domain
KeywordQuestions(d) ==
    LET kws == { DOMAIN_KEYWORDS[d].keywords[k] : k \in 1..Len(DOMAIN_KEYWORDS[d].keywords) }
        plain == { JoinBlank(ps) : ps \in SeqsUpTo(kws, MaxQuestionKeywords) \ { << >> } }
    IN  plain \cup { Capitalized(q) : q \in plain }

\* questions in which no keyword of any domain occurs
PlainQuestions ==
    { << >>, << "H", "e", "l", "l", "o" >>, << "b", "r", "a", "k", "e", " ", "p", "a", "d", "s" >> }

InitDomain ==
    /\ SynthOff
    /\ lp = Idle
    /\ cs = Idle
    /\ dc = Idle
    /\ dp = Idle
    /\ ck = Idle
    /\ hs = Idle
    /\ tb = Idle
    /\ \/ \E d \in 1..Len(DOMAIN_KEYWORDS) : \E q \in KeywordQuestions(d) :
             dq = [ pc |-> "call", question |-> q, made_of |-> DOMAIN_KEYWORDS[d].domain,
                    primary |-> "" ]
       \/ \E q \in PlainQuestions :
             dq = [ pc |-> "call", question |-> q, made_of |-> "", primary |-> "" ]

DomainCall ==
    /\ dq.pc = "call"
    /\ dq' = [ dq EXCEPT !.pc = "returned", !.primary = get_primary_domain(dq.question) ]
    /\ UNCHANGED << synthVars, lp, cs, dc, dp, ck, hs, tb >>

SpecDomain == InitDomain /\ [][DomainCall]_vars

\* C16: a question made up only of keywords of domain D classifies with D
\* as primary domain, and a question in which no keyword of any domain
\* occurs yields 'General Safety'.
C16_KeywordsOfADomainGiveThatDomain ==
    dq.pc = "returned" =>
        /\ dq.made_of # "" => dq.primary = dq.made_of
        /\ dq.made_of = "" => dq.primary = "General Safety"

-----------------------------------------------------------------------------
(* process_document over file paths (SpecPaths)                            *)

\* folder names under documents_dir
Folders ==
    { << "u", "n", "e", "c", "e", "_", "r", "e", "g", "u", "l", "a", "t", "i", "o", "n", "s" >>,
      << "N", "H", "T", "S", "A" >>,
      << "f", "u", "n", "c", "t", "i", "o", "n", "a", "l", "_", "s", "a", "f", "e", "t", "y" >>,
      << "C", "y", "b", "e", "r", "s", "e", "c", "u", "r", "i", "t", "y" >>,
      << "s", "o", "f", "t", "w", "a", "r", "e", "_", "u", "p", "d", "a", "t", "e" >>,
      << "a", "d", "a", "s" >>,
      << "v", "a", "l", "i", "d", "a", "t", "i", "o", "n" >>,
      << "p", "a", "s", "s", "i", "v", "e", "_", "s", "a", "f", "e", "t", "y" >>,
      << "d", "a", "t", "a" >> }

\* file names without the suffix
Stems ==
    { << "R", "1", "5", "5" >>,
      << "U", "N", "_", "R", "1", "5", "6" >>,
      << "i", "s", "o", "_", "2", "6", "2", "6", "2", "_", "3" >>,
      << "A", "S", "I", "L" >>,
      << "h", "a", "r", "a" >>,
      << "A", "D", "A", "S", "_", "a", "e", "b" >>,
      << "d", "r", "i", "v", "e", "r", "_", "m", "o", "n", "i", "t", "o", "r", "i", "n", "g" >>,
      << "d", "m", "s" >>,
      << "t", "u", "v" >>,
      << "c", "r", "a", "s", "h", "_", "2", "0", "1", "9" >>,
      << "p", "a", "s", "s", "i", "v", "e", " ", "s", "a", "f", "e", "t", "y" >>,
      << "n", "o", "t", "e", "s" >> }

\* process_document(documents_dir / folder / (stem + ".pdf")) on a file of
\* one page that both extractors read
InitPaths ==
    /\ SynthOff
    /\ lp = Idle
    /\ cs = Idle
    /\ dc = Idle
    /\ dq = Idle
    /\ ck = Idle
    /\ hs = Idle
    /\ tb = Idle
    /\ \E folder \in Folders, stem \in Stems :
          dp = [ pc |-> "call",
                 pdf_path |-> File(folder, stem, << ".", "p", "d", "f" >>, TRUE,
                                   << PageLong >>),
                 chunks |-> << >> ]

ProcessPath ==
    /\ dp.pc = "call"
    /\ dp' = [ dp EXCEPT !.pc = "returned", !.chunks = process_document(dp.pdf_path) ]
    /\ UNCHANGED << synthVars, lp, cs, dc, dq, ck, hs, tb >>

SpecPaths == InitPaths /\ [][ProcessPath]_vars

\* the values extract_metadata_from_path gives metadata["domain"]
PathDomains ==
    { << "Cybersecurity" >>, << "Software Update" >>, << "Functional Safety" >>,
      << "ADAS" >>, << "Driver Monitoring" >>, << "Validation" >>,
      << "General Safety" >> }

-----------------------------------------------------------------------------
(* The conversation history in the prompt of synthesis_agent (SpecHistory) *)

MaxHistory == 7

\* conversation_history[-5:]
HistoryWindow == 5

Roles == { "user", "assistant" }

\* the k-th message of a conversation; its content is named by k
Message(role, k) == [ role |-> role, content |-> k ]

Histories ==
    UNION { { [ k \in 1..n |-> Message(roles[k], k) ] : roles \in [ 1..n -> Roles ] } :
              n \in 0..MaxHistory }

\* seq[-n:]
LastOf(seq, n) == SubSeq(seq, Max(1, Len(seq) - n + 1), Len(seq))

IsUser(msg) == msg.role = "user"

\* line 231: the contents of the user messages among the last five messages
recent_questions(conversation_history) ==
    LET users == SelectSeq(LastOf(conversation_history, HistoryWindow), IsUser)
    IN  [ k \in 1..Len(users) |-> users[k].content ]

\* lines 228-233: the "Recent Conversation Context" block of the prompt, one
\* "- q" line per question; no block without history or without questions
history_context(conversation_history) ==
    IF conversation_history = << >> THEN << >>
    ELSE recent_questions(conversation_history)

InitHistory ==
    /\ SynthOff
    /\ lp = Idle
    /\ cs = Idle
    /\ dc = Idle
    /\ dp = Idle
    /\ dq = Idle
    /\ ck = Idle
    /\ tb = Idle
    /\ \E h \in Histories :
          hs = [ pc |-> "call", conversation_history |-> h, history_context |-> << >> ]

BuildPrompt ==
    /\ hs.pc = "call"
    /\ hs' = [ hs EXCEPT !.pc = "built",
                 !.history_context = history_context(hs.conversation_history) ]
    /\ UNCHANGED << synthVars, lp, cs, dc, dp, dq, ck, tb >>

SpecHistory == InitHistory /\ [][BuildPrompt]_vars

\* the user turns of a conversation, oldest first
UserTurns(conversation_history) ==
    LET users == SelectSeq(conversation_history, IsUser)
    IN  [ k \in 1..Len(users) |-> users[k].content ]

\* C23: for every conversation history with u user turns, the prompt
\* carries the min(5, u) most recent user turns, in order.
C23_PromptCarriesLastFiveUserTurns ==
    hs.pc = "built" =>
        hs.history_context = LastOf(UserTurns(hs.conversation_history), HistoryWindow)

-----------------------------------------------------------------------------
(* TableExtractor of synthesis_agent (SpecTables)                          *)
(*                                                                         *)
(* Texts are sequences of one-character strings over letters, digits, the  *)
(* pipe, the dash, the colon, the blank, the tab and the newline.          *)

\* \s over these characters, and str.isspace()
IsWhite(c) == c \in { " ", "\t", "\n" }

\* str.isalnum() of one character
IsAlnum(c) == IsIn(c, UpperCase) \/ IsIn(c, LowerCase) \/ IsIn(c, DigitChars)

\* s.split(sep), sep one character: the parts between the separators, empty
\* ones included
RECURSIVE SplitOnFrom(_, _, _, _)
SplitOnFrom(s, sep, i, part) ==
    IF i > Len(s) THEN << part >>
    ELSE IF s[i] = sep THEN << part >> \o SplitOnFrom(s, sep, i + 1, << >>)
    ELSE SplitOnFrom(s, sep, i + 1, Append(part, s[i]))

SplitOn(s, sep) == SplitOnFrom(s, sep, 1, << >>)

\* sep.join(parts)
RECURSIVE JoinWith(_, _)
JoinWith(parts, sep) ==
    IF parts = << >> THEN << >>
    ELSE IF Len(parts) = 1 THEN parts[1]
    ELSE parts[1] \o sep \o JoinWith(Tail(parts), sep)

\* s.strip()
strip(s) ==
    LET inked == { i \in 1..Len(s) : ~IsWhite(s[i]) }
    IN  IF inked = { } THEN << >>
        ELSE SubSeq(s, CHOOSE i \in inked : \A j \in inked : i <= j,
                       CHOOSE i \in inked : \A j \in inked : j <= i)

NonEmpty(cell) == cell # << >>

\* [cell.strip() for cell in line.split('|') if cell.strip()], line 67
Cells(line) ==
    LET parts == SplitOn(line, "|")
    IN  SelectSeq([ k \in 1..Len(parts) |-> strip(parts[k]) ], NonEmpty)

\* c in ['---', ':', '-'], line 71
IsRuleCell(c) == c \in { << "-", "-", "-" >>, << ":" >>, << "-" >> }

\* cells and not all(c in ['---', ':', '-'] for c in cells), line 71
IsDataRow(cells) == cells # << >> /\ ~(\A k \in 1..Len(cells) : IsRuleCell(cells[k]))

\* '|' in line and i < len(lines) - 1, line 65; i counts from 1 here
IsMarkdownLine(lines, i) == IsIn("|", lines[i]) /\ i < Len(lines)

\* the loop of lines 64-72 from line i on
RECURSIVE MarkdownLoop(_, _, _)
MarkdownLoop(lines, i, table_data) ==
    IF i > Len(lines) THEN table_data
    ELSE IF ~IsMarkdownLine(lines, i) THEN MarkdownLoop(lines, i + 1, table_data)
    ELSE LET cells == Cells(lines[i])
         IN  MarkdownLoop(lines, i + 1,
               IF i = 1
               THEN [ table_data EXCEPT !.markdown_table = TRUE, !.headers = cells ]
               ELSE IF IsDataRow(cells)
               THEN [ table_data EXCEPT !.markdown_table = TRUE,
                                        !.rows = Append(table_data.rows, cells) ]
               ELSE [ table_data EXCEPT !.markdown_table = TRUE ])

RECURSIVE WhiteRun(_, _)
WhiteRun(s, i) == IF i <= Len(s) /\ IsWhite(s[i]) THEN 1 + WhiteRun(s, i + 1) ELSE 0

RECURSIVE TabRun(_, _)
TabRun(s, i) == IF i <= Len(s) /\ s[i] = "\t" THEN 1 + TabRun(s, i + 1) ELSE 0

\* the length of the match of \s{3,}|\t+ at position i, 0 if none
ColumnGap(s, i) ==
    IF WhiteRun(s, i) >= 3 THEN WhiteRun(s, i) ELSE TabRun(s, i)

\* re.search(r'\s{3,}|\t+', line), line 82
HasColumnGap(line) == \E i \in 1..Len(line) : ColumnGap(line, i) > 0

\* re.split(r'\s{3,}|\t+', s), line 83
RECURSIVE ReSplitFrom(_, _, _)
ReSplitFrom(s, i, part) ==
    IF i > Len(s) THEN << part >>
    ELSE IF ColumnGap(s, i) > 0
         THEN << part >> \o ReSplitFrom(s, i + ColumnGap(s, i), << >>)
         ELSE ReSplitFrom(s, i + 1, Append(part, s[i]))

\* the loop of lines 80-85
RECURSIVE PotentialTable(_)
PotentialTable(lines) ==
    IF lines = << >> THEN << >>
    ELSE LET parts == ReSplitFrom(strip(Head(lines)), 1, << >>)
         IN  (IF HasColumnGap(Head(lines)) /\ Len(parts) >= 2 THEN << parts >> ELSE << >>)
             \o PotentialTable(Tail(lines))

\* the return value None of extract_table_data
NoTableData == [ has_table |-> FALSE, rows |-> << >>, headers |-> << >>, type |-> "None" ]

\* TableExtractor.extract_table_data
extract_table_data(text) ==
    LET lines == SplitOn(text, "\n")
        md == MarkdownLoop(lines, 1, [ markdown_table |-> FALSE, rows |-> << >>,
                                       headers |-> << >> ])
        potential_table == PotentialTable(lines)
    IN  IF md.markdown_table /\ md.rows # << >>
        THEN [ has_table |-> TRUE, rows |-> md.rows, headers |-> md.headers,
               type |-> "markdown" ]
        ELSE IF Len(potential_table) >= 2
        THEN [ has_table |-> TRUE, rows |-> Tail(potential_table),
               headers |-> potential_table[1], type |-> "space_separated" ]
        ELSE NoTableData

\* the first character of a line under re.MULTILINE
AtLineStart(text, i) == i = 1 \/ text[i - 1] = "\n"

RECURSIVE DigitRun(_, _)
DigitRun(s, i) == IF i <= Len(s) /\ IsIn(s[i], DigitChars) THEN 1 + DigitRun(s, i + 1) ELSE 0

RECURSIVE InkRun(_, _)
InkRun(s, i) == IF i <= Len(s) /\ ~IsWhite(s[i]) THEN 1 + InkRun(s, i + 1) ELSE 0

\* lit, then \s+, then a character of class: ASIL\s+[A-D] and HIC\s+\d+
SpacedAfter(text, lit, class) ==
    \E i \in 1..Len(text) :
        /\ StartsWithAt(text, i, lit)
        /\ WhiteRun(text, i + Len(lit)) >= 1
        /\ LET j == i + Len(lit) + WhiteRun(text, i + Len(lit))
           IN  j <= Len(text) /\ IsIn(text[j], class)

\* ^\s*\d+\.\d+\s+[A-Z]
NumberedRow(text) ==
    \E i \in 1..Len(text) :
        LET d == i + WhiteRun(text, i)
            p == d + DigitRun(text, d)
            e == p + 1 + DigitRun(text, p + 1)
            c == e + WhiteRun(text, e)
        IN  /\ AtLineStart(text, i)
            /\ DigitRun(text, d) >= 1
            /\ p <= Len(text)
            /\ text[p] = "."
            /\ DigitRun(text, p + 1) >= 1
            /\ WhiteRun(text, e) >= 1
            /\ c <= Len(text)
            /\ IsIn(text[c], UpperCase)

\* TableExtractor.detect_table: the six table_indicators in order
detect_table(text) ==
    \* \|\s*[^\|]+\s*\|
    \/ \E i, j \in 1..Len(text) :
          /\ text[i] = "|" /\ text[j] = "|" /\ j >= i + 2
          /\ \A k \in (i + 1)..(j - 1) : text[k] # "|"
    \* \s{3,}[^\s]+\s{3,}
    \/ \E i \in 1..Len(text) :
          /\ WhiteRun(text, i) >= 3
          /\ LET a == i + WhiteRun(text, i)
             IN  InkRun(text, a) >= 1 /\ WhiteRun(text, a + InkRun(text, a)) >= 3
    \* \t+[^\t]+
    \/ \E i \in 1..(Len(text) - 1) : text[i] = "\t" /\ text[i + 1] # "\t"
    \/ NumberedRow(text)
    \/ SpacedAfter(text, << "A", "S", "I", "L" >>, << "A", "B", "C", "D" >>)
    \/ SpacedAfter(text, << "H", "I", "C" >>, DigitChars)

\* lines 173-185 of synthesis_agent over the texts of all_chunks
RECURSIVE TablesOf(_)
TablesOf(texts) ==
    IF texts = << >> THEN << >>
    ELSE LET table_data == extract_table_data(Head(texts))
         IN  (IF detect_table(Head(texts)) /\ table_data.has_table
              THEN << [ table_data |-> table_data, context |-> Take(Head(texts), 500) ] >>
              ELSE << >>)
             \o TablesOf(Tail(texts))

\* the characters the clean-up of chunk_text keeps in runs, line 209 (the
\* non-ASCII ones are not characters of these texts)
KeptPunctuation == << "-", ".", ",", ";", ":", "(", ")", "[", "]", "{", "}", "%" >>

IsSymbol(c) == ~IsWordChar(c) /\ ~IsWhite(c) /\ ~IsIn(c, KeptPunctuation)

\* re.sub(r'([a-z])([A-Z])', r'\1 \2', text), line 207
RECURSIVE SplitMerged(_, _)
SplitMerged(s, i) ==
    IF i > Len(s) THEN << >>
    ELSE IF i < Len(s) /\ IsIn(s[i], LowerCase) /\ IsIn(s[i + 1], UpperCase)
         THEN << s[i], " " >> \o SplitMerged(s, i + 1)
         ELSE << s[i] >> \o SplitMerged(s, i + 1)

\* re.sub(r'\s+', ' ', text), line 208
RECURSIVE CollapseWhite(_, _)
CollapseWhite(s, i) ==
    IF i > Len(s) THEN << >>
    ELSE IF IsWhite(s[i]) THEN << " " >> \o CollapseWhite(s, i + WhiteRun(s, i))
    ELSE << s[i] >> \o CollapseWhite(s, i + 1)

RECURSIVE SameRun(_, _)
SameRun(s, i) ==
    IF i < Len(s) /\ s[i + 1] = s[i] THEN 1 + SameRun(s, i + 1) ELSE 1

\* re.sub(r'([^\w\s\-.,;:()...])\1{2,}', ' ', text), line 209
RECURSIVE DropSymbolRuns(_, _)
DropSymbolRuns(s, i) ==
    IF i > Len(s) THEN << >>
    ELSE IF IsSymbol(s[i]) /\ SameRun(s, i) >= 3
         THEN << " " >> \o DropSymbolRuns(s, i + SameRun(s, i))
         ELSE << s[i] >> \o DropSymbolRuns(s, i + 1)

\* cleaned_text of lines 205-209; these texts hold no control character
cleaned_text(text) == DropSymbolRuns(CollapseWhite(SplitMerged(text, 1), 1), 1)

\* text.split(): the maximal runs of non-whitespace characters
RECURSIVE WhiteSplitFrom(_, _, _)
WhiteSplitFrom(s, i, word) ==
    IF i > Len(s) THEN (IF word = << >> THEN << >> ELSE << word >>)
    ELSE IF IsWhite(s[i])
         THEN (IF word = << >> THEN << >> ELSE << word >>) \o WhiteSplitFrom(s, i + 1, << >>)
         ELSE WhiteSplitFrom(s, i + 1, Append(word, s[i]))

\* words of line 216
CharWords(text) == WhiteSplitFrom(cleaned_text(text), 1, << >>)

AlnumCount(w) == Cardinality({ i \in 1..Len(w) : IsAlnum(w[i]) })

\* the page of chunk_text for a text of characters: its words by their
\* sizes; none of these texts names a section
PageOfChars(text) ==
    IF strip(text) = << >> THEN << >>
    ELSE LET words == CharWords(text)
         IN  << [ k \in 1..Len(words) |->
                    PageWord(Len(words[k]), AlnumCount(words[k]), FALSE, "") ] >>

\* ' '.join(current_chunk), lines 229 and 258
ChunkTextOnLines(current_chunk) == JoinWith(current_chunk, << "\n" >>)

ChunkTextOf(current_chunk) == JoinWith(current_chunk, << " " >>)

\* the texts of the chunks chunk_text makes of a text of characters
ChunkTexts(text, chunk_size, chunk_overlap) ==
    LET words == CharWords(text)
        chunks == chunk_text(PageOfChars(text), 1, DocName, NoMetadata,
                             chunk_size, chunk_overlap)
    IN  [ m \in 1..Len(chunks) |->
            ChunkTextOf([ k \in 1..Len(chunks[m].text) |-> words[chunks[m].text[k].i] ]) ]

\* lines of prose and of whitespace-delimited columns, without a pipe:
\* those before a table and those after it
ProseLines ==
    { << "x", " ", "y" >>,
      << "A", "S", "I", "L", " ", "B" >>,
      << "a", " ", " ", " ", "b" >> }

ClosingLines == { << "x", " ", "y" >>, << "c", "\t", "d" >> }

HeaderRows == { << "a", "|", "b" >>, << "|", " ", "a", " ", "|", " ", "b", " ", "|" >> }

RuleRows == { << "-", "-", "-", "|", "-", "-", "-" >> }

DataRows == { << "1", "|", "2" >>, << "|", " ", "3", " ", "|", " ", "4", " ", "|" >> }

MaxDataRows == 2
MaxProseLines == 1

\* DocumentProcessor(chunk_size, chunk_overlap) scaled down
TableChunkConfig == [ chunk_size |-> 12, chunk_overlap |-> 2 ]

\* a pipe-delimited table: a header row, a rule or none, data rows
PipeTables ==
    { << h >> \o rule \o rows : h \in HeaderRows,
                                rule \in SeqsUpTo(RuleRows, 1),
                                rows \in SeqsUpTo(DataRows, MaxDataRows) \ { << >> } }

InitTables ==
    /\ SynthOff
    /\ lp = Idle
    /\ cs = Idle
    /\ dc = Idle
    /\ dp = Idle
    /\ dq = Idle
    /\ ck = Idle
    /\ hs = Idle
    /\ \E before \in SeqsUpTo(ProseLines, MaxProseLines),
          table \in PipeTables \cup { << >> },
          after \in SeqsUpTo(ClosingLines, MaxProseLines) :
          tb = [ pc |-> "call", before |-> before, table |-> table, after |-> after,
                 text |-> JoinWith(before \o table \o after, << "\n" >>),
                 config |-> TableChunkConfig, table_data |-> NoTableData,
                 chunk_texts |-> << >>, tables |-> << >> ]

\* TableExtractor.extract_table_data(text)
ExtractTableData ==
    /\ tb.pc = "call"
    /\ tb' = [ tb EXCEPT !.pc = "extracted", !.table_data = extract_table_data(tb.text) ]
    /\ UNCHANGED << synthVars, lp, cs, dc, dp, dq, ck, hs >>

\* chunk_text(text, ...) and then the table loop of synthesis_agent over the
\* chunks it made
ChunkAndExtractTables ==
    /\ tb.pc = "call"
    /\ LET texts == ChunkTexts(tb.text, tb.config.chunk_size, tb.config.chunk_overlap)
       IN  tb' = [ tb EXCEPT !.pc = "chunked", !.chunk_texts = texts,
                             !.tables = TablesOf(texts) ]
    /\ UNCHANGED << synthVars, lp, cs, dc, dp, dq, ck, hs >>

NextTables == ExtractTableData \/ ChunkAndExtractTables

SpecTables == InitTables /\ [][NextTables]_vars

\* the cells of the rows of a table after its first that are not rule rows
DataRowsOf(table) ==
    SelectSeq([ k \in 1..(Len(table) - 1) |-> Cells(table[k + 1]) ], IsDataRow)

\* C25: for every text that contains a pipe-delimited table with a header
\* row and at least one data row, wherever the table starts in the text and
\* also when its last row is the last line of the text, extract_table_data
\* returns has_table = true with type 'markdown', headers equal to the cells
\* of the table's first row, and rows equal to the cells of every following
\* row that is not a rule row.
C25_PipeTableIsExtractedWhole ==
    (tb.pc = "extracted" /\ tb.table # << >>) =>
        /\ tb.table_data.has_table
        /\ tb.table_data.type = "markdown"
        /\ tb.table_data.headers = Cells(tb.table[1])
        /\ tb.table_data.rows = DataRowsOf(tb.table)

\* a single line of words joined by single blanks
IsOneLineOfWords(text) ==
    /\ \A i \in 1..Len(text) : text[i] \notin { "\n", "\t" }
    /\ \A i \in 1..(Len(text) - 1) : ~(text[i] = " " /\ text[i + 1] = " ")
    /\ text # << >> /\ text[1] # " " /\ text[Len(text)] # " "

\* C27: synthesis_agent finds no table in chunks made by chunk_text: every
\* chunk text is a single line of words joined by single blanks (no newline,
\* no tab, no run of blanks), extract_table_data finds neither a markdown
\* table nor a whitespace-delimited table in it, and the tables list is
\* empty.
C27_ChunksOfChunkTextHoldNoTable ==
    tb.pc = "chunked" =>
        /\ \A m \in 1..Len(tb.chunk_texts) :
              /\ IsOneLineOfWords(tb.chunk_texts[m])
              /\ extract_table_data(tb.chunk_texts[m]) = NoTableData
        /\ tb.tables = << >>

\* a page with a pipe table between two lines of columns, cut into several
\* chunks of which one sets off detect_table
C27_Witness ==
    /\ tb.pc = "chunked"
    /\ tb.table # << >>
    /\ extract_table_data(tb.text).has_table
    /\ Len(tb.chunk_texts) >= 2
    /\ \E m \in 1..Len(tb.chunk_texts) : detect_table(tb.chunk_texts[m])
    /\ tb.tables = << >>

-----------------------------------------------------------------------------
(* Specifications                                                          *)

Init ==
    /\ InitSynth
    /\ lp = Idle
    /\ cs = Idle
    /\ dc = Idle
    /\ dp = Idle
    /\ dq = Idle
    /\ ck = Idle
    /\ hs = Idle
    /\ tb = Idle

Next ==
    \/ Start
    \/ ClaudeCall
    \/ OpenAICall

Spec == Init /\ [][Next]_vars

\* every model call returns or raises (the client's default timeout), so a
\* request that can take a step takes it: weak fairness of Next, WF_vars(Next),
\* spelled out with the enabling condition of Next (a step of Next is possible
\* exactly while the request is not done, and every step changes pc or calls)
SpecLive == Spec /\ ([]<>Done \/ []<><<Next>>_vars)

=============================================================================
